---- MODULE Spec2Model ----
(***************************************************************************)
(* A model of tspldriver (main.go): the TSPL bitmap encoder                *)
(* (pngToTsplFromBuffer), the label grid slicer (cropToLabels,             *)
(* isImageBlank), the device path resolution of writeToPrinter, and the    *)
(* mode dispatcher (detectMode, main, and the argument grammar of          *)
(* modeFilter, modeBackend and modeCLI).                                   *)
(*                                                                         *)
(* Strings of the program are sequences of one-character strings, so that  *)
(* prefix tests, splitting, trimming and base names are computed the way   *)
(* the Go library computes them.  Images are functions from pixel          *)
(* coordinates to pixel values.                                            *)
(***************************************************************************)
EXTENDS Integers, Sequences, FiniteSets, TLC

VARIABLES
    cfg,                              \* DPI, LABEL_W_MM, ... (main.go globals)
    PX_W, PX_H, MARGIN_PX,            \* label size and margin in pixels
    encPc, encIn, encPadded, encOut,  \* one call of pngToTsplFromBuffer
    cropPc, page,                     \* one call of cropToLabels: the page,
    rows, cols, cropR, cropC,         \*   the grid and the loop position,
    labelIndex, labels, cells,        \*   the labels saved, the cells visited
    devPc, devArg, devPath,           \* one call of writeToPrinter: dev,
    devLen, devW, devEvents,          \*   len(tspl), w, the calls it made
    osArgs, envDevice, fs, dataLen,   \* the process: os.Args, TSPL_DEVICE, the
                                      \*   files that exist, the job's bytes
    filters, staging,                 \* filter processes that run at a time,
                                      \*   and the staging files under /tmp
    mpc, autoMode, finalMode, args,   \* main: position, modes, flag.Args()
    run, exitCode,                    \* what the mode handler did; exit status
    handler, jpc, jobErr,             \* one job: the mode handler that runs, its
    pagesLeft, labelsLeft,            \*   position, the error it returned, the
    streams,                          \*   loops, standard output and error
    pages                             \* the page images pdfToPngPages returned

cfgVars == <<cfg, PX_W, PX_H, MARGIN_PX>>
encVars == <<encPc, encIn, encPadded, encOut>>
cropVars == <<cropPc, page, rows, cols, cropR, cropC, labelIndex, labels, cells>>
devVars == <<devPc, devArg, devPath, devLen, devW, devEvents>>
procVars == <<osArgs, envDevice, fs, dataLen, filters, staging>>
mainVars == <<mpc, autoMode, finalMode, args, run, exitCode>>
jobVars == <<handler, jpc, jobErr, pagesLeft, labelsLeft, streams, pages>>
vars == <<cfgVars, encVars, cropVars, devVars, procVars, mainVars, jobVars>>

\* A value for "nothing here" in record-valued variables.
None == [none |-> TRUE]

(***************************************************************************)
(* Bounds of the model.                                                    *)
(***************************************************************************)
\* Largest label width and height, in pixels, given to the encoder.
MaxEncW == 10
MaxEncH == 2
\* Label widths given to the slicer: 1 .. MaxPxW, and the widths from one
\* below the right column's offset to MaxPxW above it; heights 1 .. MaxPxH.
MaxPxW == 4
MaxPxH == 2
\* Largest number of inked columns inside the left column's crop.
MaxDark == 3
\* Largest number of whole chunks in a buffer given to the device writer.
MaxChunks == 2

(***************************************************************************)
(* Arithmetic helpers.                                                     *)
(***************************************************************************)
Min(a, b) == IF a < b THEN a ELSE b

\* int(math.Ceil(float64(a) / float64(b))) for a >= 0, b > 0.
CeilDiv(a, b) == (a + b - 1) \div b

Pow2(k) == CASE k = 0 -> 1 [] k = 1 -> 2 [] k = 2 -> 4 [] k = 3 -> 8
             [] k = 4 -> 16 [] k = 5 -> 32 [] k = 6 -> 64 [] k = 7 -> 128

RECURSIVE SumTo(_, _)
\* f[0] + ... + f[n]
SumTo(f, n) == IF n < 0 THEN 0 ELSE f[n] + SumTo(f, n - 1)

(***************************************************************************)
(* Strings, as sequences of one-character strings, and the functions of    *)
(* the Go packages strings, strconv and path/filepath that main.go calls.  *)
(***************************************************************************)
\* strings.HasPrefix
HasPrefix(s, p) == Len(s) >= Len(p) /\ SubSeq(s, 1, Len(p)) = p

\* strings.Contains
Contains(s, sub) ==
    \E i \in 1 .. Len(s) - Len(sub) + 1 : SubSeq(s, i, i + Len(sub) - 1) = sub

\* strings.TrimPrefix
TrimPrefix(s, p) == IF HasPrefix(s, p) THEN SubSeq(s, Len(p) + 1, Len(s)) ELSE s

\* strings.IndexByte, 1-based; 0 when c is not in s.
Index(s, c) ==
    IF \E i \in 1 .. Len(s) : s[i] = c
       THEN CHOOSE i \in 1 .. Len(s) : s[i] = c /\ \A j \in 1 .. i - 1 : s[j] # c
       ELSE 0

\* strings.LastIndexByte, 1-based; 0 when c is not in s.
LastIndex(s, c) ==
    IF \E i \in 1 .. Len(s) : s[i] = c
       THEN CHOOSE i \in 1 .. Len(s) : s[i] = c /\ \A j \in i + 1 .. Len(s) : s[j] # c
       ELSE 0

\* strings.SplitN(s, c, 2) for a one-character separator c.
SplitN2(s, c) ==
    LET i == Index(s, c) IN
    IF i = 0 THEN <<s>> ELSE <<SubSeq(s, 1, i - 1), SubSeq(s, i + 1, Len(s))>>

UpperCase == <<"A", "B", "C", "D", "E", "F", "G", "H", "I", "J", "K", "L", "M", "N", "O", "P", "Q", "R", "S", "T", "U", "V", "W", "X", "Y", "Z">>
LowerCase == <<"a", "b", "c", "d", "e", "f", "g", "h", "i", "j", "k", "l", "m", "n", "o", "p", "q", "r", "s", "t", "u", "v", "w", "x", "y", "z">>
Digits == <<"0", "1", "2", "3", "4", "5", "6", "7", "8", "9">>

LowerChar(c) ==
    IF \E i \in 1 .. 26 : UpperCase[i] = c
       THEN LowerCase[CHOOSE i \in 1 .. 26 : UpperCase[i] = c]
       ELSE c

\* strings.ToLower
ToLower(s) == [i \in 1 .. Len(s) |-> LowerChar(s[i])]

IsDigit(c) == \E i \in 1 .. 10 : Digits[i] = c
IsLetter(c) == \E i \in 1 .. 26 : UpperCase[i] = c \/ LowerCase[i] = c

RECURSIVE StripTrailingSlashes(_)
StripTrailingSlashes(s) ==
    IF Len(s) > 0 /\ s[Len(s)] = "/"
       THEN StripTrailingSlashes(SubSeq(s, 1, Len(s) - 1))
       ELSE s

\* filepath.Base: "." for the empty path, "/" for a path of slashes only,
\* else the last element after the trailing slashes are dropped.
Base(path) ==
    IF path = <<>> THEN <<".">>
    ELSE LET p == StripTrailingSlashes(path)
             e == SubSeq(p, LastIndex(p, "/") + 1, Len(p))
         IN IF e = <<>> THEN <<"/">> ELSE e

\* strconv.Atoi succeeds: an optional sign and then one or more decimal
\* digits (the digit strings of the model are far from 64-bit overflow).
IsInt(s) ==
    LET d == IF Len(s) > 0 /\ s[1] \in {"+", "-"} THEN SubSeq(s, 2, Len(s)) ELSE s
    IN Len(d) > 0 /\ \A i \in 1 .. Len(d) : IsDigit(d[i])

(***************************************************************************)
(* Configuration: the package-level defaults and recalcPixels.             *)
(***************************************************************************)
\* Lines 27-34.  Millimetres are whole numbers in the model.
DefaultCfg ==
    [DPI |-> 200, LABEL_W_MM |-> 100, LABEL_H_MM |-> 150,
     MARGIN_MM |-> 2, GAP_MM |-> 2, DELAY_MS |-> 200]

\* Lines 46-48: int(math.Round(mm * 0.0393701 * float64(dpi))) for mm >= 0
\* and dpi >= 0.  With x = mm*dpi the product is x*393701/10^7, which is
\* never within rounding error of a half for whole x below 5*10^6; it is
\* computed in two parts to stay within 32 bits.
MmToPx(mm, dpi) ==
    LET x == mm * dpi
    IN (x * 393 + (x * 701) \div 1000 + 5000) \div 10000

\* The state before any call: the defaults, and the pixel sizes they give.
CfgDefault ==
    /\ cfg = DefaultCfg
    /\ MARGIN_PX = MmToPx(DefaultCfg.MARGIN_MM, DefaultCfg.DPI)

(***************************************************************************)
(* The parts of the state a specification does not use stay as they are.   *)
(***************************************************************************)
EncIdle == encPc = "idle" /\ encIn = None /\ encPadded = None /\ encOut = None

CropIdle ==
    /\ cropPc = "idle" /\ page = None /\ rows = 0 /\ cols = 0 /\ cropR = 0
    /\ cropC = 0 /\ labelIndex = 0 /\ labels = <<>> /\ cells = <<>>

DevIdle ==
    /\ devPc = "idle" /\ devArg = <<>> /\ devPath = <<>>
    /\ devLen = 0 /\ devW = 0 /\ devEvents = <<>>

MainIdle ==
    /\ osArgs = <<>> /\ envDevice = <<>> /\ fs = {} /\ dataLen = 0
    /\ filters = <<>> /\ staging = <<>>
    /\ mpc = "idle" /\ autoMode = <<>> /\ finalMode = <<>> /\ args = <<>>
    /\ run = None /\ exitCode = 0

JobIdle ==
    /\ handler = "none" /\ jpc = "idle" /\ jobErr = "" /\ pagesLeft = 0
    /\ labelsLeft = 0 /\ streams = [stdout |-> <<>>, stderr |-> <<>>]
    /\ pages = <<>>

notEnc == <<cfgVars, cropVars, devVars, procVars, mainVars, jobVars>>
notCrop == <<cfgVars, encVars, devVars, procVars, mainVars, jobVars>>
notDev == <<cfgVars, encVars, cropVars, procVars, mainVars, jobVars>>
notMain == <<encVars, cropVars, devVars, jobVars>>

(***************************************************************************)
(* Bitmap encoder: pngToTsplFromBuffer.                                    *)
(*                                                                         *)
(* A gray image is [w, h, px] with px[<<x, y>>] the luminance c.Y that     *)
(* color.GrayModel.Convert yields for the (opaque) pixel at (x, y).        *)
(***************************************************************************)
\* Luminances on both sides of the threshold, and the two extremes.
Lums == {0, 127, 128, 255}

Pixels(w, h) == (0 .. w - 1) \X (0 .. h - 1)

Uniform(w, h, l) == [w |-> w, h |-> h, px |-> [p \in Pixels(w, h) |-> l]]

OneOff(w, h, bg, at, fg) ==
    [w |-> w, h |-> h, px |-> [p \in Pixels(w, h) |-> IF p = at THEN fg ELSE bg]]

IsUniform(img) == \A p, q \in Pixels(img.w, img.h) : img.px[p] = img.px[q]

\* imaging.Resize(gray, PX_W, PX_H, Lanczos) for PX_W, PX_H > 0: an image of
\* exactly PX_W x PX_H.  The resampling kernel normalises its weights, so a
\* canvas of one colour keeps that colour; the model resizes only such
\* canvases.
Resize(img, w, h) == Uniform(w, h, img.px[<<0, 0>>])

\* A mutant of EnsureSize: the defensive resize is left out.
EnsureSizeNever(img, w, h) == img

\* Lines 248-253: resize when the decoded size is not the configured one.
EnsureSize(img, w, h) == IF img.w # w \/ img.h # h THEN Resize(img, w, h) ELSE img

\* A mutant of PaddedWidth: rounds down to a multiple of 8.
PaddedWidthDown(w) == (w \div 8) * 8

\* Line 256: paddedW := (w + 7) &^ 7
PaddedWidth(w) == ((w + 7) \div 8) * 8

\* Lines 257-263: paste the image at (0,0) of a white canvas paddedW wide.
Pad(img) ==
    LET pw == PaddedWidth(img.w) IN
    IF pw # img.w
       THEN [w |-> pw, h |-> img.h,
             px |-> [p \in Pixels(pw, img.h) |->
                        IF p[1] < img.w THEN img.px[p] ELSE 255]]
       ELSE img

\* A mutant of PackedBit: the comparison without the inversion of line 278.
PackedBitNoInvert(y) == IF y < 128 THEN 1 ELSE 0

\* Lines 271-278: bit = 1 for c.Y < 128, else 0; then bit = 1 - bit.
PackedBit(y) == 1 - (IF y < 128 THEN 1 ELSE 0)

\* Lines 265-283: bytesPerRow = w/8; byte y*bytesPerRow + (x>>3) collects
\* bit << (7 - (x&7)) of the eight pixels x of its column block.
PackBitmap(img) ==
    LET bytesPerRow == img.w \div 8
        byteAt(i) ==
            LET y  == i \div bytesPerRow
                x0 == (i % bytesPerRow) * 8
            IN SumTo([k \in 0 .. 7 |->
                        PackedBit(img.px[<<x0 + k, y>>]) * Pow2(7 - k)], 7)
    IN [i \in 1 .. bytesPerRow * img.h |-> byteAt(i - 1)]

\* Lines 242-290: the Bitmap Command of one decoded image under the label
\* size (w, h): the numbers printed by "BITMAP 0,0,%d,%d,1,", the payload,
\* the trailer; and the size of the padded image the payload was packed from.
TsplCommand(img, w, h) ==
    LET gray   == EnsureSize(img, w, h)
        padded == Pad(gray)
    IN [bytesPerRow |-> padded.w \div 8, height |-> padded.h,
        payload |-> PackBitmap(padded), trailer |-> "\nPRINT 1\n",
        paddedW |-> padded.w, paddedH |-> padded.h]

\* The decoded images offered to the encoder under label size (w, h):
\* label-sized canvases of one colour or with one pixel of another colour,
\* and canvases of one colour of any other size.
EncInputs(w, h) ==
    {Uniform(iw, ih, l) : iw \in 1 .. MaxEncW, ih \in 1 .. MaxEncH, l \in Lums}
    \cup {OneOff(w, h, bg, at, fg) :
             bg \in Lums, at \in Pixels(w, h), fg \in Lums}

EncInit ==
    /\ CfgDefault /\ CropIdle /\ DevIdle /\ MainIdle /\ JobIdle
    /\ PX_W \in 1 .. MaxEncW
    /\ PX_H \in 1 .. MaxEncH
    /\ encIn \in EncInputs(PX_W, PX_H)
    /\ encPc = "call"
    /\ encPadded = None
    /\ encOut = None

\* pngToTsplFromBuffer(pngBuf), for a buffer that decodes to encIn.
PngToTsplFromBuffer ==
    /\ encPc = "call"
    /\ encOut' = TsplCommand(encIn, PX_W, PX_H)
    /\ encPadded' = [w |-> encOut'.paddedW, h |-> encOut'.paddedH]
    /\ encPc' = "done"
    /\ UNCHANGED <<encIn, notEnc>>

EncNext == PngToTsplFromBuffer

SpecEnc == EncInit /\ [][EncNext]_vars

(***************************************************************************)
(* Label grid slicer: isImageBlank and cropToLabels.                       *)
(*                                                                         *)
(* A pixel is [r, g, b, a] (non-premultiplied, 0..255).  A page is         *)
(* [w, h, darkCols, darkRows, ink, paper]: its pixels with x < darkCols    *)
(* and y < darkRows hold the pixel ink and the others the pixel paper.     *)
(***************************************************************************)
\* Line 36: int(math.Round(4.0 * 0.0393701 * 200)), computed once when the
\* package is initialised and assigned nowhere else.
SAFE_MARGIN_RIGHT_PX == 31

\* A mutant of ColumnOffset: no safety offset.
ColumnOffsetNone(c) == 0

\* Lines 159-163: what is added to the left edge of a cell of column c.
ColumnOffset(c) ==
    IF c = 1 THEN SAFE_MARGIN_RIGHT_PX + 25
    ELSE IF c = 0 THEN SAFE_MARGIN_RIGHT_PX - 25
    ELSE 0

White       == [r |-> 255, g |-> 255, b |-> 255, a |-> 255]
JustAbove   == [r |-> 241, g |-> 241, b |-> 241, a |-> 255]
AtThreshold == [r |-> 240, g |-> 255, b |-> 255, a |-> 255]
Translucent == [r |-> 255, g |-> 255, b |-> 255, a |-> 254]
Black       == [r |-> 0,   g |-> 0,   b |-> 0,   a |-> 255]

PagePx(pg, p) ==
    IF p[1] < pg.darkCols /\ p[2] < pg.darkRows THEN pg.ink ELSE pg.paper

\* Lines 100-105: Color.RGBA() of an NRGBA pixel is alpha-premultiplied and
\* 16 bits wide; >> 8 gives the channel back when a = 255 and the channel
\* scaled by a/255 otherwise.
RGBA8(px) ==
    IF px.a = 255 THEN px
    ELSE [r |-> (px.r * px.a) \div 255, g |-> (px.g * px.a) \div 255,
          b |-> (px.b * px.a) \div 255, a |-> px.a]

\* Line 108: the test that counts a pixel as white.
IsWhitePixel(px, threshold) ==
    LET c == RGBA8(px) IN
    c.r > threshold /\ c.g > threshold /\ c.b > threshold /\ c.a = 255

\* Lines 95-112: whitePixels of the crop rect of the page.
WhitePixels(pg, rect, threshold) ==
    Cardinality({p \in (rect.left .. rect.right - 1) \X (rect.top .. rect.bottom - 1) :
                    IsWhitePixel(PagePx(pg, p), threshold)})

\* Line 96: totalPixels
TotalPixels(rect) == (rect.right - rect.left) * (rect.bottom - rect.top)

\* A mutant of BlankRatio: at least 95% white counts as blank.
BlankRatioAtLeast(whitePixels, totalPixels) == 100 * whitePixels >= 95 * totalPixels

\* Line 115: float64(whitePixels)/float64(totalPixels) > 0.95.  The quotient
\* of two integers below 2^31 is rounded to the double nearest to it, and
\* 0.95 is the double nearest to 19/20, so the comparison is that of the
\* exact fractions.
BlankRatio(whitePixels, totalPixels) == 100 * whitePixels > 95 * totalPixels

\* A mutant of isImageBlank: no crop is taken for blank.
isImageBlankNever(pg, rect, threshold) == FALSE

isImageBlank(pg, rect, threshold) ==
    BlankRatio(WhitePixels(pg, rect, threshold), TotalPixels(rect))

\* A mutant of GridCount: the grid is 2 x 2 whatever the page size.
GridCountFixed(pageLen, labelLen) == 2

\* Lines 134-146: rows (cols) = min(2, ceil(pageH / PX_H)).
GridCount(pageLen, labelLen) == Min(2, CeilDiv(pageLen, labelLen))

\* Lines 134-146 for any label length.  For PX_H = 0 the quotient is +Inf,
\* and the int that the conversion of +Inf yields depends on the machine:
\* the most negative int (written -1 here: only its sign is used), or the
\* largest, which the limit of 2 replaces.  For PX_H < 0 the quotient is
\* negative and its ceiling is minus the whole part.
GridCounts(pageLen, labelLen) ==
    IF labelLen > 0 THEN {GridCount(pageLen, labelLen)}
    ELSE IF labelLen = 0 THEN {-1, 2}
    ELSE {0 - (pageLen \div (0 - labelLen))}

\* Lines 155-163: the origin of cell (r, c).
CellLeft(c) == c * PX_W + ColumnOffset(c)
CellTop(r) == r * PX_H

\* A mutant of OutOfBounds: only the top edge is tested.
OutOfBoundsTopOnly(left, top, pg) == top >= pg.h

\* Line 166
OutOfBounds(left, top, pg) == left >= pg.w \/ top >= pg.h

\* A mutant of CropRect: the rect is not clipped to the page.
CropRectUnclipped(left, top, pg) ==
    [left |-> left, top |-> top, right |-> left + PX_W, bottom |-> top + PX_H]

\* Lines 173-186: the crop rect, clipped to the page.
CropRect(left, top, pg) ==
    [left |-> left, top |-> top,
     right |-> Min(left + PX_W, pg.w), bottom |-> Min(top + PX_H, pg.h)]

\* The two column offsets, around which the label and page widths of the
\* model are chosen.
OffLeft == SAFE_MARGIN_RIGHT_PX - 25
OffRight == SAFE_MARGIN_RIGHT_PX + 25

Near(a, b) == a - b <= 1 /\ b - a <= 1

LabelWidths == (1 .. MaxPxW) \cup ((OffRight - 1) .. (OffRight + MaxPxW))

\* Page widths up to 2*pw+1: the narrow ones, and those next to a label
\* width, to two label widths and to the right column's left edge.
PageWidths(pw) ==
    {w \in 1 .. 2 * pw + 1 :
        \/ w <= OffLeft + 2
        \/ Near(w, pw) \/ Near(w, 2 * pw) \/ Near(w, pw + OffRight)}

DarkCols(w) == {d \in {0, w} \cup {OffLeft + k : k \in 1 .. MaxDark} : d <= w}

Inks == {<<White, Black>>, <<JustAbove, AtThreshold>>, <<White, Translucent>>}

\* The ink reaches the bottom of the page, or the middle of its height.
DarkRows(h) == {r \in {h, h \div 2} : r >= 1}

Pages(pw, ph) ==
    {[w |-> w, h |-> h, darkCols |-> d[1], darkRows |-> d[2], paper |-> ip[1],
      ink |-> ip[2]] :
        w \in PageWidths(pw), h \in 1 .. 2 * ph + 1,
        d \in (0 .. 2 * pw + 1) \X (1 .. 2 * ph + 1), ip \in Inks}

CropInit ==
    /\ CfgDefault /\ EncIdle /\ DevIdle /\ MainIdle /\ JobIdle
    /\ PX_W \in LabelWidths
    /\ PX_H \in 1 .. MaxPxH
    /\ page \in {pg \in Pages(PX_W, PX_H) :
                   pg.darkCols \in DarkCols(pg.w) /\ pg.darkRows \in DarkRows(pg.h)}
    /\ cropPc = "call"
    /\ rows = 0 /\ cols = 0 /\ cropR = 0 /\ cropC = 0
    /\ labelIndex = 0
    /\ labels = <<>>
    /\ cells = <<>>

\* Lines 119-151: imaging.Open fails, or the grid is computed and the loop
\* starts.
CropOpen ==
    /\ cropPc = "call"
    /\ \E ok \in BOOLEAN :
         IF ok
            THEN /\ rows' \in GridCounts(page.h, PX_H)
                 /\ cols' \in GridCounts(page.w, PX_W)
                 /\ labelIndex' = 1
                 /\ cropPc' = "loop"
            ELSE /\ cropPc' = "error"
                 /\ UNCHANGED <<rows, cols, labelIndex>>
    /\ UNCHANGED <<notCrop, page, cropR, cropC, labels, cells>>

\* The cell after (r, c) in the order of the two loops of lines 153-154.
NextR == IF cropC + 1 < cols THEN cropR ELSE cropR + 1
NextC == IF cropC + 1 < cols THEN cropC + 1 ELSE 0

Cell(outcome, rect, white) ==
    [index |-> labelIndex, r |-> cropR, c |-> cropC, outcome |-> outcome,
     rect |-> rect, white |-> white]

\* Lines 204-210: png.Encode of the label canvas.  imaging.New gives an
\* empty image for a width or height of 0 or less, and png.Encode refuses an
\* image without pixels; into a bytes.Buffer it fails in no other way.
EncodeFails == PX_W <= 0 \/ PX_H <= 0

\* Lines 155-228: one iteration of the inner loop, for cell (cropR, cropC).
CropCell ==
    /\ cropPc = "loop"
    /\ cropR < rows /\ cols > 0
    /\ LET left == CellLeft(cropC)
           top  == CellTop(cropR)
           rect == CropRect(left, top, page)
       IN IF OutOfBounds(left, top, page)
             THEN /\ cells' = Append(cells, Cell("out of bounds", None, 0))
                  /\ UNCHANGED labels
             ELSE IF isImageBlank(page, rect, 240)
                     THEN /\ cells' = Append(cells,
                                 Cell("blank", rect, WhitePixels(page, rect, 240)))
                          /\ UNCHANGED labels
                     ELSE \E written \in BOOLEAN :
                            IF EncodeFails
                               THEN /\ labels' = <<>>
                                    /\ cells' = Append(cells,
                                          Cell("encode failed", rect, 0))
                            ELSE IF written
                               THEN /\ labels' = Append(labels, labelIndex)
                                    /\ cells' = Append(cells,
                                          Cell("label", rect, WhitePixels(page, rect, 240)))
                               ELSE /\ UNCHANGED labels
                                    /\ cells' = Append(cells,
                                          Cell("write failed", rect,
                                               WhitePixels(page, rect, 240)))
    /\ labelIndex' = labelIndex + 1
    /\ cropR' = NextR
    /\ cropC' = NextC
    /\ cropPc' = IF cells'[Len(cells')].outcome = "encode failed" THEN "error" ELSE "loop"
    /\ UNCHANGED <<notCrop, page, rows, cols>>

\* Lines 231-232: the loops are over; the labels are returned.
CropReturn ==
    /\ cropPc = "loop"
    /\ (cropR >= rows \/ cols <= 0)
    /\ cropPc' = "done"
    /\ UNCHANGED <<notCrop, page, rows, cols, cropR, cropC, labelIndex, labels, cells>>

CropNext == CropOpen \/ CropCell \/ CropReturn

SpecCrop == CropInit /\ [][CropNext]_vars

(***************************************************************************)
(* Device writer: writeToPrinter.                                          *)
(***************************************************************************)
\* Line 322: chunk := 4096
CHUNK == 4096

\* A mutant of DevicePath: the prefix is cut only from a tspl: or file:
\* identifier.
DevicePathKnownSchemes(dev) ==
    IF HasPrefix(dev, <<"t", "s", "p", "l", ":">>) \/ HasPrefix(dev, <<"f", "i", "l", "e", ":">>)
       THEN TrimPrefix(SplitN2(dev, ":")[2], <<"/", "/">>)
       ELSE dev

\* Lines 297-308: the path that is stat-ed and opened for the identifier dev.
DevicePath(dev) ==
    IF Contains(dev, <<":">>)
       THEN LET parts == SplitN2(dev, ":") IN
            IF Len(parts) = 2 THEN TrimPrefix(parts[2], <<"/", "/">>) ELSE dev
       ELSE dev

\* The identifiers handed to the writer: a scheme or none, slashes, a path.
Schemes == {<<>>, <<"t", "s", "p", "l", ":">>, <<"f", "i", "l", "e", ":">>, <<"u", "s", "b", ":">>}
Slashes == {<<>>, <<"/">>, <<"/", "/">>, <<"/", "/", "/">>, <<"/", "/", "/", "/">>}
Paths == {<<"d", "e", "v", "/", "u", "s", "b", "/", "l", "p", "5">>, <<"d", "e", "v", "/", "u", "s", "b", ":", "1">>, <<"l", "p", "5">>, <<"l", "p", ":", "5">>, <<>>}
DeviceArgs == {sc \o sl \o pa : sc \in Schemes, sl \in Slashes, pa \in Paths}

\* Buffer lengths: around each multiple of the chunk size, up to MaxChunks.
BufferLengths ==
    {n \in {k * CHUNK + d : k \in 0 .. MaxChunks, d \in {-1, 0, 1}} : n >= 1}

DevInit ==
    /\ CfgDefault /\ EncIdle /\ CropIdle /\ MainIdle /\ JobIdle
    /\ PX_W = MmToPx(cfg.LABEL_W_MM, cfg.DPI)
    /\ PX_H = MmToPx(cfg.LABEL_H_MM, cfg.DPI)
    /\ devArg \in DeviceArgs
    /\ devLen \in BufferLengths
    /\ devPc = "call"
    /\ devPath = <<>>
    /\ devW = 0
    /\ devEvents = <<>>

Event(kind, from, to) == [kind |-> kind, from |-> from, to |-> to]

\* Lines 294-308: the call, up to the path it will stat.
DevResolve ==
    /\ devPc = "call"
    /\ devPath' = DevicePath(devArg)
    /\ devPc' = "stat"
    /\ UNCHANGED <<notDev, devArg, devLen, devW, devEvents>>

\* Lines 310-314: os.Stat(dev); an error returns "printer device not found".
DevStat ==
    /\ devPc = "stat"
    /\ \E ok \in BOOLEAN :
         /\ devPc' = IF ok THEN "open" ELSE "failed"
         /\ devEvents' = Append(devEvents, Event(IF ok THEN "stat" ELSE "stat error", 0, 0))
    /\ UNCHANGED <<notDev, devArg, devPath, devLen, devW>>

\* Lines 316-323: os.OpenFile(dev, O_WRONLY); an error returns "open device".
DevOpen ==
    /\ devPc = "open"
    /\ \E ok \in BOOLEAN :
         /\ devPc' = IF ok THEN "write" ELSE "failed"
         /\ devEvents' = Append(devEvents, Event(IF ok THEN "open" ELSE "open error", 0, 0))
    /\ devW' = 0
    /\ UNCHANGED <<notDev, devArg, devPath, devLen>>

\* A mutant of ChunkEnd: the end of the slice is not held to the buffer.
ChunkEndUnclamped(w, len) == w + CHUNK

\* Lines 325-328: end := w + chunk, held to len(tspl).
ChunkEnd(w, len) == IF w + CHUNK > len THEN len ELSE w + CHUNK

\* A mutant of LoopDone: the loop ends after its first write.
LoopDoneEarly(w, len) == w > 0

\* Line 324: for w < len(tspl): the loop is over when that is false.
LoopDone(w, len) == w >= len

\* Lines 324-335: one iteration of the loop: f.Write(tspl[w:end]) writes the
\* whole slice, or fails and the function returns "write error".
DevWrite ==
    /\ devPc = "write"
    /\ ~LoopDone(devW, devLen)
    /\ LET end == ChunkEnd(devW, devLen) IN
       \E ok \in BOOLEAN :
         IF ok
            THEN /\ devEvents' = Append(devEvents, Event("write", devW, end))
                 /\ devW' = devW + (end - devW)
                 /\ devPc' = "write"
            ELSE /\ devEvents' = Append(devEvents, Event("write error", devW, end))
                 /\ devPc' = "failed"
                 /\ UNCHANGED devW
    /\ UNCHANGED <<notDev, devArg, devPath, devLen>>

\* A mutant of AfterLoop: the writer returns without the settle wait.
AfterLoopNoSettle(ok) == <<Event(IF ok THEN "sync" ELSE "sync error", 0, 0)>>

\* Lines 336-341: f.Sync(), whose failure is logged only, then
\* time.Sleep(300 * time.Millisecond).
AfterLoop(ok) == <<Event(IF ok THEN "sync" ELSE "sync error", 0, 0), Event("settle", 0, 0)>>

\* Lines 336-343: after the loop, f.Sync() (a failure is logged only), the
\* 300 ms sleep, and return nil.
DevSync ==
    /\ devPc = "write"
    /\ LoopDone(devW, devLen)
    /\ \E ok \in BOOLEAN : devEvents' = devEvents \o AfterLoop(ok)
    /\ devPc' = "returned nil"
    /\ UNCHANGED <<notDev, devArg, devPath, devLen, devW>>

DevNext == DevResolve \/ DevStat \/ DevOpen \/ DevWrite \/ DevSync

SpecDev == DevInit /\ [][DevNext]_vars

(***************************************************************************)
(* Mode dispatcher: detectMode, main, and the argument grammar of          *)
(* modeFilter, modeBackend and modeCLI.  os.Args[i] is osArgs[i + 1].      *)
(***************************************************************************)
Backend == <<"b", "a", "c", "k", "e", "n", "d">>
Filter == <<"f", "i", "l", "t", "e", "r">>
Cli == <<"c", "l", "i">>

\* A mutant of detectMode: the base name is compared as it is spelled.
detectModeCaseSensitive(argv) ==
    LET arg0 == argv[1]
        name == Base(arg0)
    IN IF Contains(arg0, <<":">>) /\ HasPrefix(arg0, <<"t", "s", "p", "l", ":">>) THEN Backend
       ELSE IF name = <<"t", "s", "p", "l", "-", "b", "a", "c", "k", "e", "n", "d">> \/ name = <<"t", "s", "p", "l">> THEN Backend
       ELSE IF name = <<"t", "s", "p", "l", "-", "f", "i", "l", "t", "e", "r">> \/ name = <<"t", "s", "p", "l", "-", "t", "h", "e", "r", "m", "a", "l">> THEN Filter
       ELSE IF Contains(name, <<"b", "a", "c", "k", "e", "n", "d">>) THEN Backend
       ELSE IF Contains(name, <<"f", "i", "l", "t", "e", "r">>) \/ Contains(name, <<"t", "h", "e", "r", "m", "a", "l">>) THEN Filter
       ELSE IF Len(argv) >= 6 /\ ~Contains(arg0, <<":">>) /\ IsInt(argv[2]) THEN Filter
       ELSE Cli

\* Lines 652-699.
detectMode(argv) ==
    LET arg0 == argv[1]
        name == ToLower(Base(arg0))
    IN IF Contains(arg0, <<":">>) /\ HasPrefix(arg0, <<"t", "s", "p", "l", ":">>) THEN Backend
       ELSE IF name = <<"t", "s", "p", "l", "-", "b", "a", "c", "k", "e", "n", "d">> \/ name = <<"t", "s", "p", "l">> THEN Backend
       ELSE IF name = <<"t", "s", "p", "l", "-", "f", "i", "l", "t", "e", "r">> \/ name = <<"t", "s", "p", "l", "-", "t", "h", "e", "r", "m", "a", "l">> THEN Filter
       ELSE IF Contains(name, <<"b", "a", "c", "k", "e", "n", "d">>) THEN Backend
       ELSE IF Contains(name, <<"f", "i", "l", "t", "e", "r">>) \/ Contains(name, <<"t", "h", "e", "r", "m", "a", "l">>) THEN Filter
       ELSE IF Len(argv) >= 6 /\ ~Contains(arg0, <<":">>) /\ IsInt(argv[2]) THEN Filter
       ELSE Cli

DigitVal(c) == (CHOOSE i \in 1 .. 10 : Digits[i] = c) - 1

RECURSIVE DigitsVal(_)
DigitsVal(d) ==
    IF d = <<>> THEN 0
    ELSE 10 * DigitsVal(SubSeq(d, 1, Len(d) - 1)) + DigitVal(d[Len(d)])

\* The number a string satisfying IsInt stands for.
IntVal(s) ==
    IF s[1] = "-" THEN 0 - DigitsVal(SubSeq(s, 2, Len(s)))
    ELSE IF s[1] = "+" THEN DigitsVal(SubSeq(s, 2, Len(s)))
    ELSE DigitsVal(s)

\* Lines 706-712: the flags and their defaults.
FlagNames ==
    {<<"m", "o", "d", "e">>, <<"d", "p", "i">>, <<"w", "i", "d", "t", "h">>, <<"h", "e", "i", "g", "h", "t">>, <<"m", "a", "r", "g", "i", "n">>, <<"g", "a", "p">>, <<"d", "e", "l", "a", "y">>}

DefaultFlags(auto) ==
    [mode |-> auto, dpi |-> 0, width |-> 0, height |-> 0, margin |-> 0, gap |-> 0,
     delay |-> 0]

\* Value.Set of the flag: -mode takes any string; the numeric flags take,
\* among the strings of the model, the decimal whole numbers.
FlagValueOk(name, value) == name = <<"m", "o", "d", "e">> \/ IsInt(value)

SetFlag(fl, name, value) ==
    CASE name = <<"m", "o", "d", "e">>   -> [fl EXCEPT !.mode = value]
      [] name = <<"d", "p", "i">>    -> [fl EXCEPT !.dpi = IntVal(value)]
      [] name = <<"w", "i", "d", "t", "h">>  -> [fl EXCEPT !.width = IntVal(value)]
      [] name = <<"h", "e", "i", "g", "h", "t">> -> [fl EXCEPT !.height = IntVal(value)]
      [] name = <<"m", "a", "r", "g", "i", "n">> -> [fl EXCEPT !.margin = IntVal(value)]
      [] name = <<"g", "a", "p">>    -> [fl EXCEPT !.gap = IntVal(value)]
      [] name = <<"d", "e", "l", "a", "y">>  -> [fl EXCEPT !.delay = IntVal(value)]

RECURSIVE FlagParse(_, _)
\* Line 723: flag.Parse() over os.Args[1:], as package flag parses: "-x" or
\* "--x", "=value" or the next argument as the value, "--" ends the flags,
\* the first argument that is no flag ends them too.  status is "ok",
\* "help" (exit 0) or "error" (exit 2, the flag set being ExitOnError).
FlagParse(toks, fl) ==
    IF toks = <<>> THEN [status |-> "ok", flags |-> fl, args |-> <<>>]
    ELSE
    LET s == Head(toks) IN
    IF Len(s) < 2 \/ s[1] # "-" THEN [status |-> "ok", flags |-> fl, args |-> toks]
    ELSE IF s = <<"-", "-">> THEN [status |-> "ok", flags |-> fl, args |-> Tail(toks)]
    ELSE
    LET body == IF s[2] = "-" THEN SubSeq(s, 3, Len(s)) ELSE SubSeq(s, 2, Len(s)) IN
    IF body = <<>> \/ body[1] \in {"-", "="}
       THEN [status |-> "error", flags |-> fl, args |-> toks]
    ELSE
    LET eq    == Index(body, "=")
        name  == IF eq = 0 THEN body ELSE SubSeq(body, 1, eq - 1)
        rest  == Tail(toks)
    IN
    IF name \notin FlagNames
       THEN [status |-> IF name \in {<<"h", "e", "l", "p">>, <<"h">>} THEN "help" ELSE "error",
             flags |-> fl, args |-> rest]
    ELSE IF eq = 0 /\ rest = <<>>
       THEN [status |-> "error", flags |-> fl, args |-> rest]
    ELSE
    LET value == IF eq # 0 THEN SubSeq(body, eq + 1, Len(body)) ELSE Head(rest)
        after == IF eq # 0 THEN rest ELSE Tail(rest)
    IN IF FlagValueOk(name, value)
          THEN FlagParse(after, SetFlag(fl, name, value))
          ELSE [status |-> "error", flags |-> fl, args |-> after]

\* Lines 732-749: a flag overrides its setting when its value is > 0.
ApplyFlags(c, fl) ==
    [DPI        |-> IF fl.dpi > 0 THEN fl.dpi ELSE c.DPI,
     LABEL_W_MM |-> IF fl.width > 0 THEN fl.width ELSE c.LABEL_W_MM,
     LABEL_H_MM |-> IF fl.height > 0 THEN fl.height ELSE c.LABEL_H_MM,
     MARGIN_MM  |-> IF fl.margin > 0 THEN fl.margin ELSE c.MARGIN_MM,
     GAP_MM     |-> IF fl.gap > 0 THEN fl.gap ELSE c.GAP_MM,
     DELAY_MS   |-> IF fl.delay > 0 THEN fl.delay ELSE c.DELAY_MS]

\* Lines 45-49, on the settings c.
recalcPixels(c) ==
    /\ PX_W' = MmToPx(c.LABEL_W_MM, c.DPI)
    /\ PX_H' = MmToPx(c.LABEL_H_MM, c.DPI)
    /\ MARGIN_PX' = MmToPx(c.MARGIN_MM, c.DPI)

\* Lines 724-728: the mode given by -mode wins when it is not empty.
FinalMode(auto, fl) == IF fl.mode # <<>> /\ fl.mode # auto THEN fl.mode ELSE auto

Stdin == [kind |-> "stdin", path |-> <<>>]
File(path) == [kind |-> "file", path |-> path]

Run(h, status, options, input, dev, path) ==
    [handler |-> h, status |-> status, options |-> options, input |-> input,
     dev |-> dev, devPath |-> path]

\* Line 766: modeFilter is handed os.Args.
FilterArgs(argv) == argv

\* Lines 416-419: options = argv[5] when there are 6 arguments or more.
FilterOptions(argv) == IF Len(argv) >= 6 THEN argv[6] ELSE <<>>

\* Lines 421-448: the document is argv[6], or stdin when it is absent or "-".
FilterInput(argv) ==
    IF Len(argv) >= 7 /\ argv[7] # <<"-">> THEN File(argv[7]) ELSE Stdin

\* Line 771: modeBackend is handed os.Args.
BackendArgs(argv) == argv

\* Lines 537-553: the device of a backend job.
BackendDevice(argv, env) ==
    LET uri == argv[1]
        dev == IF env # <<>> THEN env
               ELSE IF HasPrefix(uri, <<"t", "s", "p", "l", ":">>)
                       THEN TrimPrefix(TrimPrefix(uri, <<"t", "s", "p", "l", ":">>), <<"/", "/">>)
               ELSE IF HasPrefix(uri, <<"f", "i", "l", "e", ":">>)
                       THEN TrimPrefix(TrimPrefix(uri, <<"f", "i", "l", "e", ":">>), <<"/", "/">>)
               ELSE uri
    IN IF dev = <<>> THEN <<"/", "d", "e", "v", "/", "u", "s", "b", "/", "l", "p", "5">> ELSE dev

\* Lines 555-576: the job's bytes come from argv[6], or from stdin when it
\* is absent, empty or "-".
BackendInput(argv) ==
    IF Len(argv) >= 7 /\ argv[7] # <<>> /\ argv[7] # <<"-">>
       THEN File(argv[7]) ELSE Stdin

\* Line 513: the device listing is asked for.
BackendList(argv) == Len(argv) = 1 \/ (Len(argv) > 1 /\ argv[Len(argv)] = <<"l", "i", "s", "t">>)

\* Lines 704, 715-721: detectMode, before any flag is parsed.
Detect ==
    /\ mpc = "start"
    /\ autoMode' = detectMode(osArgs)
    /\ mpc' = "detected"
    /\ UNCHANGED <<cfgVars, notMain, procVars, finalMode, args, run, exitCode>>

\* Lines 715-752: in backend and filter mode the flags are not parsed; else
\* flag.Parse, the final mode, the overrides; then recalcPixels.
ParseFlags ==
    /\ mpc = "detected"
    /\ IF autoMode = Backend \/ autoMode = Filter
          THEN /\ finalMode' = autoMode
               /\ args' = Tail(osArgs)
               /\ recalcPixels(cfg)
               /\ mpc' = "route"
               /\ UNCHANGED <<cfg, exitCode>>
          ELSE LET parsed == FlagParse(Tail(osArgs), DefaultFlags(autoMode)) IN
               IF parsed.status = "ok"
                  THEN /\ finalMode' = FinalMode(autoMode, parsed.flags)
                       /\ args' = parsed.args
                       /\ cfg' = ApplyFlags(cfg, parsed.flags)
                       /\ recalcPixels(cfg')
                       /\ mpc' = "route"
                       /\ UNCHANGED exitCode
                  ELSE /\ exitCode' = IF parsed.status = "help" THEN 0 ELSE 2
                       /\ mpc' = "exit"
                       /\ UNCHANGED <<cfgVars, finalMode, args>>
    /\ UNCHANGED <<notMain, procVars, autoMode, run>>

\* Lines 764-769 and 406-500: modeFilter(os.Args).  The named document must
\* exist; rasterising, slicing and encoding then succeed or fail as a whole.
ModeFilter ==
    /\ mpc = "route"
    /\ finalMode = Filter
    /\ LET argv    == FilterArgs(osArgs)
           options == FilterOptions(argv)
           input   == FilterInput(argv)
       IN IF input.kind = "file" /\ input.path \notin fs
             THEN /\ run' = Run("filter", "pdf file not found", options, input, <<>>, <<>>)
                  /\ exitCode' = 1
             ELSE \E ok \in BOOLEAN :
                    /\ run' = Run("filter", IF ok THEN "ok" ELSE "failed", options,
                                  input, <<>>, <<>>)
                    /\ exitCode' = IF ok THEN 0 ELSE 1
    /\ mpc' = "exit"
    /\ UNCHANGED <<cfgVars, notMain, procVars, autoMode, finalMode, args>>

\* Lines 770-774 and 506-590: modeBackend(os.Args).
ModeBackend ==
    /\ mpc = "route"
    /\ finalMode = Backend
    /\ LET argv  == BackendArgs(osArgs)
           dev   == BackendDevice(argv, envDevice)
           input == BackendInput(argv)
       IN IF BackendList(argv)
             THEN /\ run' = Run("backend", "listed", <<>>, None, <<>>, <<>>)
                  /\ exitCode' = 0
          ELSE IF Len(argv) < 6
             THEN /\ run' = Run("backend", "insufficient args", <<>>, None, <<>>, <<>>)
                  /\ exitCode' = 1
          ELSE IF input.kind = "file" /\ input.path \notin fs
             THEN /\ run' = Run("backend", "failed to read file", <<>>, input, dev, <<>>)
                  /\ exitCode' = 1
          ELSE IF dataLen = 0
             THEN /\ run' = Run("backend", "no data to write", <<>>, input, dev, <<>>)
                  /\ exitCode' = 1
          ELSE \E ok \in BOOLEAN :
                 /\ run' = Run("backend", IF ok THEN "written" ELSE "failed", <<>>,
                               input, dev, DevicePath(dev))
                 /\ exitCode' = IF ok THEN 0 ELSE 1
    /\ mpc' = "exit"
    /\ UNCHANGED <<cfgVars, notMain, procVars, autoMode, finalMode, args>>

\* Lines 775-792 and 605-650: usage, or modeCLI(args[0], args[1], args[2]).
ModeCLI ==
    /\ mpc = "route"
    /\ finalMode # Filter /\ finalMode # Backend
    /\ IF Len(args) < 1
          THEN /\ run' = Run("cli", "usage", <<>>, None, <<>>, <<>>)
               /\ exitCode' = 1
          ELSE LET printer == IF Len(args) >= 2 THEN args[2] ELSE <<"/", "d", "e", "v", "/", "u", "s", "b", "/", "l", "p", "5">>
                   options == IF Len(args) >= 3 THEN args[3] ELSE <<>>
               IN \E ok \in BOOLEAN :
                    /\ run' = Run("cli", IF ok THEN "ok" ELSE "failed", options,
                                  File(args[1]), printer, DevicePath(printer))
                    /\ exitCode' = IF ok THEN 0 ELSE 1
    /\ mpc' = "exit"
    /\ UNCHANGED <<cfgVars, notMain, procVars, autoMode, finalMode, args>>

\* The names the program is started under.
Arg0s ==
    {<<"t", "s", "p", "l", "d", "r", "i", "v", "e", "r">>, <<".", "/", "t", "s", "p", "l", "d", "r", "i", "v", "e", "r">>, <<"/", "f", "i", "l", "t", "e", "r", "/", "t", "s", "p", "l", "d", "r", "i", "v", "e", "r">>,
     <<"/", "c", "u", "p", "s", "/", "f", "i", "l", "t", "e", "r", "/", "t", "s", "p", "l", "-", "f", "i", "l", "t", "e", "r">>, <<"/", "c", "u", "p", "s", "/", "b", "a", "c", "k", "e", "n", "d", "/", "t", "s", "p", "l">>, <<"t", "s", "p", "l", "-", "b", "a", "c", "k", "e", "n", "d">>,
     <<"T", "S", "P", "L", "-", "T", "h", "e", "r", "m", "a", "l">>, <<"t", "s", "p", "l", "-", "f", "i", "l", "t", "e", "r", "/">>, <<"m", "y", "-", "b", "a", "c", "k", "e", "n", "d">>, <<"l", "a", "b", "e", "l", "f", "i", "l", "t", "e", "r", "2">>,
     <<"t", "h", "e", "r", "m", "a", "l", "p", "r", "i", "n", "t">>, <<"t", "s", "p", "l", ":", "/", "d", "e", "v", "/", "u", "s", "b", "/", "l", "p", "5">>, <<"t", "s", "p", "l", ":", "/", "d", "e", "v", "/", "t", "s", "p", "l", "-", "f", "i", "l", "t", "e", "r">>,
     <<"f", "i", "l", "e", ":", "/", "d", "e", "v", "/", "u", "s", "b", "/", "l", "p", "5">>, <<"u", "s", "b", ":", "/", "d", "e", "v", "/", "b", "a", "c", "k", "e", "n", "d">>, <<"/", "o", "p", "t", "/", "a", ":", "b", "/", "t", "s", "p", "l", "d", "r", "i", "v", "e", "r">>, <<>>}

User == <<"u", "s", "e", "r">>
Title == <<"t", "i", "t", "l", "e">>
One == <<"1">>
PageSizeA4 == <<"P", "a", "g", "e", "S", "i", "z", "e", "=", "A", "4">>
FilePdf == <<"f", "i", "l", "e", ".", "p", "d", "f">>
TsplUri == <<"t", "s", "p", "l", ":", "/", "d", "e", "v", "/", "u", "s", "b", "/", "l", "p", "5">>

\* The arguments of a spooler job: job-id user title copies options [file].
JobTails ==
    {<<job, User, Title, One, opts>> \o file :
        job \in {One, <<"-", "7">>, <<"j", "1">>},
        opts \in {PageSizeA4, <<>>},
        file \in {<<>>, <<FilePdf>>, <<<<"-">>>>, << <<>> >>}}

\* Other command lines: none, the listing, too few job arguments, the CLI
\* forms with and without flags, and the two command lines of the README's
\* "Test without installing".
OtherTails ==
    {<<>>, <<<<"l", "i", "s", "t">>>>, <<One, User>>,
     <<FilePdf>>, <<FilePdf, TsplUri>>, <<FilePdf, <<"/", "d", "e", "v", "/", "u", "s", "b", "/", "l", "p", "5">>, <<"d", "p", "i", "=", "2", "0", "3">>>>,
     <<<<"-", "-", "d", "p", "i", "=", "2", "0", "3">>, FilePdf>>, <<<<"-", "d", "p", "i">>, <<"3", "0", "0">>, <<"-", "-", "w", "i", "d", "t", "h", "=", "5", "0">>, FilePdf>>,
     <<<<"-", "-", "m", "a", "r", "g", "i", "n", "=", "0">>, <<"-", "-", "g", "a", "p", "=", "0">>, <<"-", "-", "d", "e", "l", "a", "y", "=", "0">>, FilePdf>>,
     <<<<"-", "-", "m", "o", "d", "e", "=", "c", "l", "i">>, FilePdf>>, <<<<"-", "-", "m", "o", "d", "e", "=">>, FilePdf>>,
     <<<<"-", "-", "m", "o", "d", "e", "=", "p", "r", "i", "n", "t">>, FilePdf>>,
     <<<<"-", "-", "d", "p", "i", "=", "a", "b", "c">>, FilePdf>>, <<<<"-", "-", "b", "o", "g", "u", "s", "=", "1">>, FilePdf>>, <<<<"-", "-", "h", "e", "l", "p">>>>,
     <<<<"-", "-", "d", "p", "i">>>>, <<<<"-", "-", "-", "d", "p", "i", "=", "1">>>>, <<<<"-", "-">>, FilePdf>>, <<<<"-">>, FilePdf>>,
     <<<<"-", "-", "m", "o", "d", "e", "=", "f", "i", "l", "t", "e", "r">>, One, User, Title, One, PageSizeA4, FilePdf>>,
     <<<<"-", "-", "m", "o", "d", "e">>, <<"f", "i", "l", "t", "e", "r">>, One, User, Title, One, PageSizeA4>>,
     <<<<"-", "-", "m", "o", "d", "e", "=", "b", "a", "c", "k", "e", "n", "d">>, TsplUri>>,
     <<<<"-", "-", "m", "o", "d", "e", "=", "b", "a", "c", "k", "e", "n", "d">>, TsplUri, One, User, Title, One, <<>> >>}

ArgVectors == {<<a0>> \o tail : a0 \in Arg0s, tail \in JobTails \cup OtherTails}

MainInit ==
    /\ EncIdle /\ CropIdle /\ DevIdle /\ JobIdle
    /\ cfg = DefaultCfg
    /\ PX_W = 0 /\ PX_H = 0 /\ MARGIN_PX = 0
    /\ osArgs \in ArgVectors
    /\ envDevice \in {<<>>, <<"/", "d", "e", "v", "/", "u", "s", "b", "/", "l", "p", "0">>}
    /\ fs \in {{}, {FilePdf}}
    /\ filters = <<>> /\ staging = <<>>
    /\ dataLen \in {0, CHUNK}
    /\ mpc = "start"
    /\ autoMode = <<>> /\ finalMode = <<>> /\ args = <<>>
    /\ run = None
    /\ exitCode = 0

MainNext == Detect \/ ParseFlags \/ ModeFilter \/ ModeBackend \/ ModeCLI

SpecMain == MainInit /\ [][MainNext]_vars

(***************************************************************************)
(* Options string: parseCupsOptions.  The values of the model's tokens are *)
(* decimal whole numbers or no numbers at all.                             *)
(***************************************************************************)
\* strings.HasSuffix and strings.TrimSuffix
HasSuffix(s, suf) ==
    Len(s) >= Len(suf) /\ SubSeq(s, Len(s) - Len(suf) + 1, Len(s)) = suf

TrimSuffix(s, suf) == IF HasSuffix(s, suf) THEN SubSeq(s, 1, Len(s) - Len(suf)) ELSE s

RECURSIVE Fields(_)
\* strings.Fields: the pieces between runs of spaces.
Fields(s) ==
    IF s = <<>> THEN <<>>
    ELSE IF s[1] = " " THEN Fields(Tail(s))
    ELSE LET i == Index(s, " ") IN
         IF i = 0 THEN <<s>>
         ELSE <<SubSeq(s, 1, i - 1)>> \o Fields(SubSeq(s, i + 1, Len(s)))

RECURSIVE Split(_, _)
\* strings.Split(s, c) for a one-character separator c.
Split(s, c) ==
    LET i == Index(s, c) IN
    IF i = 0 THEN <<s>>
    ELSE <<SubSeq(s, 1, i - 1)>> \o Split(SubSeq(s, i + 1, Len(s)), c)

\* Lines 387-390: strconv.Atoi with the error dropped: 0 for a string that
\* is no number.
parseInt(s) == IF IsInt(s) THEN IntVal(s) ELSE 0

\* Lines 383-386: strconv.ParseFloat with the error dropped.
parseFloat(s) == IF IsInt(s) THEN IntVal(s) ELSE 0

\* Lines 376-382: the two numbers around the one "x", or the label size as
\* it is when there is not exactly one "x".
parseTwoFloats(c, s) ==
    LET parts == Split(s, "x") IN
    IF Len(parts) # 2 THEN <<c.LABEL_W_MM, c.LABEL_H_MM>>
    ELSE <<parseFloat(parts[1]), parseFloat(parts[2])>>

\* Lines 350-371: one token of the options string.
ApplyOption(c, p) ==
    IF ~Contains(p, <<"=">>) THEN c
    ELSE
    LET i == Index(p, "=")
        k == ToLower(SubSeq(p, 1, i - 1))
        v == SubSeq(p, i + 1, Len(p))
    IN CASE k = <<"p", "a", "g", "e", "s", "i", "z", "e">> ->
              LET lv == TrimSuffix(ToLower(v), <<"m", "m">>) IN
              IF Contains(lv, <<"x">>)
                 THEN LET wh == parseTwoFloats(c, lv) IN
                      [c EXCEPT !.LABEL_W_MM = wh[1], !.LABEL_H_MM = wh[2]]
                 ELSE c
         [] k = <<"d", "p", "i">>    -> [c EXCEPT !.DPI = parseInt(v)]
         [] k = <<"m", "a", "r", "g", "i", "n">> -> [c EXCEPT !.MARGIN_MM = parseFloat(v)]
         [] k = <<"g", "a", "p">>    -> [c EXCEPT !.GAP_MM = parseFloat(v)]
         [] k = <<"d", "e", "l", "a", "y">>  -> [c EXCEPT !.DELAY_MS = parseInt(v)]
         [] OTHER -> c

RECURSIVE ApplyOptions(_, _)
ApplyOptions(c, parts) ==
    IF parts = <<>> THEN c
    ELSE ApplyOptions(ApplyOption(c, Head(parts)), Tail(parts))

\* Lines 347-374: the settings after parseCupsOptions(opts) on settings c.
parseCupsOptions(c, opts) == ApplyOptions(c, Fields(opts))

\* The option strings of the model: none, the page sizes of the README,
\* sizes in millimetres, well-formed and malformed values, other tokens.
OptionStrings ==
    {<<>>, <<"P", "a", "g", "e", "S", "i", "z", "e", "=", "A", "4">>, <<"P", "a", "g", "e", "S", "i", "z", "e", "=", "L", "a", "b", "e", "l", "4", "x", "6">>, <<"P", "a", "g", "e", "S", "i", "z", "e", "=", "L", "a", "b", "e", "l", "3", "x", "5">>,
     <<"P", "a", "g", "e", "S", "i", "z", "e", "=", "L", "a", "b", "e", "l", "2", "x", "4">>, <<"P", "a", "g", "e", "S", "i", "z", "e", "=", "1", "0", "0", "x", "1", "5", "0", "m", "m">>, <<"P", "a", "g", "e", "S", "i", "z", "e", "=", "5", "0", "x", "3", "0">>,
     <<"P", "a", "g", "e", "S", "i", "z", "e", "=", "4", "x", "6", "x", "1">>, <<"p", "a", "g", "e", "s", "i", "z", "e", "=", "a", "x", "b">>, <<"d", "p", "i", "=", "a", "b", "c">>, <<"m", "a", "r", "g", "i", "n", "=", "x">>, <<"d", "e", "l", "a", "y", "=">>,
     <<"D", "p", "i", "=", "2", "0", "3", " ", " ", "g", "a", "p", "=", "3">>, <<"d", "p", "i", "=", "3", "0", "0", " ", "d", "p", "i", "=", "a", "b", "c">>, <<"m", "a", "r", "g", "i", "n", "=", "0", " ", "g", "a", "p", "=", "0", " ", "d", "e", "l", "a", "y", "=", "0">>,
     <<"P", "a", "g", "e", "S", "i", "z", "e", "=", "A", "4", " ", "d", "p", "i", "=", "3", "0", "0", " ", "c", "o", "p", "i", "e", "s", " ", "n", "o", "k", "e", "y", "=", "1">>}

(***************************************************************************)
(* One job: modeFilter, modeCLI and modeBackend from their first line to   *)
(* the exit of the process.  cropToLabels and writeToPrinter run as the    *)
(* state machines above; rasterising, reading a label back and encoding it *)
(* succeed or fail.                                                        *)
(***************************************************************************)
\* Largest number of pages a document is rasterised to.
MaxPages == 2

mainRest == <<mpc, autoMode, finalMode, args, run>>

\* Lines 52-57: logInfo and logErr print to os.Stderr.
logInfo(st, text) == [st EXCEPT !.stderr = Append(@, [level |-> "I", text |-> text])]

\* A mutant of logErr: the error text is printed to standard output.
logErrToStdout(st, text) ==
    [st EXCEPT !.stdout = Append(@, [kind |-> "text", text |-> text])]

logErr(st, text) == [st EXCEPT !.stderr = Append(@, [level |-> "E", text |-> text])]

\* A mutant of ExitStatus: a failure exits with 2.
ExitStatusAuth(failed) == IF failed THEN 2 ELSE 0

\* Lines 766-769, 771-774, 788-791: os.Exit(1) on an error; main returns,
\* and the process exits with 0, otherwise.
ExitStatus(failed) == IF failed THEN 1 ELSE 0

\* A mutant of WriteFailed: the error of writeToPrinter is not looked at.
WriteFailedIgnored(pc) == FALSE

\* Lines 640, 582: if err := writeToPrinter(...); err != nil
WriteFailed(pc) == pc = "failed"

\* The number of characters of %d and of %.0f for a whole number n >= 0.
DecLen(n) == IF n < 10 THEN 1 ELSE IF n < 100 THEN 2 ELSE IF n < 1000 THEN 3
             ELSE IF n < 10000 THEN 4 ELSE 5

\* Lines 265-290: len of the command of a label of pw x ph pixels under the
\* settings c: the header, bytesPerRow * h bytes, "\nPRINT 1\n".
CommandLen(c, pw, ph) ==
    LET bytesPerRow == PaddedWidth(pw) \div 8 IN
    45 + DecLen(c.LABEL_W_MM) + DecLen(c.LABEL_H_MM) + DecLen(c.GAP_MM)
       + DecLen(bytesPerRow) + DecLen(ph) + bytesPerRow * ph + 9

\* Lines 782-790: printer and options of a CLI command line args.
CliPrinter(a) == IF Len(a) >= 2 THEN a[2] ELSE <<"/", "d", "e", "v", "/", "u", "s", "b", "/", "l", "p", "5">>
CliOptions(a) == IF Len(a) >= 3 THEN a[3] ELSE <<>>

\* The pages a document is rasterised to: one too narrow for any cell, a
\* white one and an inked one.
JobPages ==
    {[w |-> 1, h |-> 1, darkCols |-> 0, darkRows |-> 1, paper |-> White, ink |-> Black],
     [w |-> OffLeft + 2, h |-> 1, darkCols |-> 0, darkRows |-> 1, paper |-> White,
      ink |-> Black],
     [w |-> OffLeft + 2, h |-> 1, darkCols |-> OffLeft + 2, darkRows |-> 1,
      paper |-> White, ink |-> Black]}

\* An inked page a pixel higher than the default label: it has two cells.
TallPage ==
    [w |-> OffLeft + 2, h |-> MmToPx(DefaultCfg.LABEL_H_MM, DefaultCfg.DPI) + 1,
     darkCols |-> OffLeft + 2,
     darkRows |-> MmToPx(DefaultCfg.LABEL_H_MM, DefaultCfg.DPI) + 1,
     paper |-> White, ink |-> Black]

\* The pages of the document of a job: the page of two cells is among
\* them in the jobs whose command line has no options argument.
JobPagesOf(h, argv) ==
    LET given == IF h = "filter" THEN Len(argv) >= 6 ELSE Len(Tail(argv)) >= 3
    IN IF given THEN JobPages ELSE JobPages \cup {TallPage}

\* The code of a character of a file name, as sort.Strings compares them.
CharCode(ch) ==
    IF ch = "-" THEN 45
    ELSE IF ch = "." THEN 46
    ELSE IF IsDigit(ch) THEN 48 + DigitVal(ch)
    ELSE 96 + (CHOOSE i \in 1 .. 26 : LowerCase[i] = ch)

RECURSIVE Decimal(_)
\* fmt.Sprintf("%d", n) for n >= 0.
Decimal(n) == IF n < 10 THEN <<Digits[n + 1]>> ELSE Decimal(n \div 10) \o <<Digits[(n % 10) + 1]>>

\* Line 75: fmt.Sprintf("page-%d.png", i+1), the name of the image of page n
\* in the staging directory.
PageName(n) == <<"p", "a", "g", "e", "-">> \o Decimal(n) \o <<".", "p", "n", "g">>

\* The page number a page image was named by.
PageNumber(name) == DigitsVal(SubSeq(name, 6, Len(name) - 4))

RECURSIVE StringLess(_, _)
\* a < b for Go strings: byte by byte, a proper prefix first.
StringLess(a, b) ==
    IF b = <<>> THEN FALSE
    ELSE IF a = <<>> THEN TRUE
    ELSE IF a[1] # b[1] THEN CharCode(a[1]) < CharCode(b[1])
    ELSE StringLess(Tail(a), Tail(b))

\* A sort.Strings that leaves the names in the order given.
SortStringsNot(names) == names

\* sort.Strings, for names that differ: the k-th of the result is the name
\* with k - 1 names below it.
SortStrings(names) ==
    [k \in 1 .. Len(names) |->
        names[CHOOSE i \in 1 .. Len(names) :
                 Cardinality({j \in 1 .. Len(names) : StringLess(names[j], names[i])}) = k - 1]]

\* Lines 69-90: the page images of a document of n pages that renders: one
\* name per page, then sort.Strings(pages).
pdfToPngPages(n) == SortStrings([i \in 1 .. n |-> PageName(i)])

\* Lines 471, 478: the positions i+1 and j+1 of the page and of the label
\* the loops are at.
PageAt == Len(pages) - pagesLeft
LabelAt == Len(labels) - labelsLeft + 1

\* Lines 167, 191, 220, 225, 231: what cropToLabels logged of the cells of
\* the page: skipped out of bounds, skipped as blank, not saved, saved.
logCells(st, cs) ==
    [st EXCEPT !.stderr = Append(@, [level |-> "I", text |-> "Cropped into",
                                     page |-> PageAt,
                                     outcomes |-> [k \in 1 .. Len(cs) |-> cs[k].outcome]])]

\* Lines 481, 486, 495, 644: a log line about one label of one page.
logLabel(st, level, text) ==
    [st EXCEPT !.stderr = Append(@, [level |-> level, text |-> text,
                                     page |-> PageAt, label |-> LabelAt])]

Returns(err) == jobErr' = err /\ jpc' = "returned"

\* Lines 406-448: modeFilter up to the document it will rasterise.
FilterStart ==
    /\ jpc = "start" /\ handler = "filter"
    /\ LET input == FilterInput(osArgs) IN
       IF input.kind = "file"
          THEN IF input.path \in fs
                  THEN jpc' = "options" /\ UNCHANGED jobErr
                  ELSE Returns("pdf file not found")
          ELSE \E r \in {"", "read stdin", "write temp pdf"} :
                  IF r = "" THEN jpc' = "options" /\ UNCHANGED jobErr ELSE Returns(r)
    /\ streams' = logInfo(streams, "Filter mode started")
    /\ UNCHANGED <<cfgVars, encVars, cropVars, devVars, procVars, mainVars, handler,
                   pages,
                   pagesLeft, labelsLeft>>

\* Lines 775-790: main in CLI mode: usage and exit 1 without arguments, else
\* modeCLI(pdfPath, printer, options).
CliStart ==
    /\ jpc = "start" /\ handler = "cli"
    /\ IF Len(Tail(osArgs)) < 1
          THEN /\ jpc' = "exit"
               /\ exitCode' = 1
               /\ streams' = [streams EXCEPT
                                 !.stderr = Append(@, [level |-> "", text |-> "Usage"])]
          ELSE /\ jpc' = "options"
               /\ UNCHANGED <<exitCode, streams>>
    /\ UNCHANGED <<cfgVars, encVars, cropVars, devVars, procVars, mainRest, handler,
                   pages,
                   jobErr, pagesLeft, labelsLeft>>

\* Lines 450-462 and 606-609: parseCupsOptions when there are options, then
\* recalcPixels.
JobOptions ==
    /\ jpc = "options"
    /\ LET options == IF handler = "filter" THEN FilterOptions(osArgs)
                      ELSE CliOptions(Tail(osArgs))
       IN cfg' = IF options # <<>> THEN parseCupsOptions(cfg, options) ELSE cfg
    /\ recalcPixels(cfg')
    /\ jpc' = "raster"
    /\ UNCHANGED <<encVars, cropVars, devVars, procVars, mainVars, handler,
                   pages, jobErr,
                   pagesLeft, labelsLeft, streams>>

\* Lines 464-469 and 616-619: pdfToPngPages fails, or gives the pages.  A
\* document that does not exist cannot be opened.
JobRaster ==
    /\ jpc = "raster"
    /\ LET input == IF handler = "filter" THEN FilterInput(osArgs)
                    ELSE File(osArgs[2])
       IN \E n \in -1 .. MaxPages :
            /\ input.kind = "file" /\ input.path \notin fs => n = -1
            /\ IF n = -1
                  THEN Returns("pdfToPngPages") /\ UNCHANGED <<pagesLeft, streams, pages>>
                  ELSE /\ pages' = pdfToPngPages(n)
                       /\ pagesLeft' = n
                       /\ jpc' = "pages"
                       /\ streams' = logInfo(streams, "pages")
                       /\ UNCHANGED jobErr
    /\ UNCHANGED <<cfgVars, encVars, cropVars, devVars, procVars, mainVars, handler,
                   labelsLeft>>

\* Lines 472-473 and 622-623: the next page is handed to cropToLabels.
JobPage ==
    /\ jpc = "pages" /\ pagesLeft > 0
    /\ pagesLeft' = pagesLeft - 1
    /\ page' \in JobPagesOf(handler, osArgs)
    /\ cropPc' = "call"
    /\ rows' = 0 /\ cols' = 0 /\ cropR' = 0 /\ cropC' = 0
    /\ labelIndex' = 0 /\ labels' = <<>> /\ cells' = <<>>
    /\ jpc' = "cropping"
    /\ UNCHANGED <<cfgVars, encVars, devVars, procVars, mainVars, handler,
                   pages, jobErr,
                   labelsLeft, streams>>

\* Lines 473-477 and 623-627: an error of cropToLabels is logged and the
\* next page is taken; else the labels of the page are gone through.
JobCropped ==
    /\ jpc = "cropping" /\ cropPc \in {"done", "error"}
    /\ IF cropPc = "error"
          THEN /\ streams' = logErr(streams, "cropToLabels")
               /\ jpc' = "pages"
               /\ UNCHANGED labelsLeft
          ELSE /\ labelsLeft' = Len(labels)
               /\ jpc' = "labels"
               /\ streams' = IF handler = "filter"
                                THEN logInfo(logCells(streams, cells), "labels")
                                ELSE logCells(streams, cells)
    /\ cropPc' = "returned"
    /\ UNCHANGED <<cfgVars, encVars, page, rows, cols, cropR, cropC, labelIndex,
                   labels, cells, devVars, procVars, mainVars, handler, pages, jobErr,
                   pagesLeft>>

\* A mutant of LabelErrorReturns: an error on one label ends the job.
LabelErrorReturnsAlways(outcome) == outcome # "encoded"

\* Lines 480-487 and 630-639: an error of ReadFile or of pngToTsplFromBuffer
\* is logged and followed by continue: it is never returned.
LabelErrorReturns(outcome) == FALSE

\* Lines 478-495 and 628-645: one label of the page: it is read back and
\* encoded (an error of either is logged and the next label is taken); the
\* filter writes the command to standard output and returns when that
\* fails, with none or some of the bytes written; the CLI hands the command
\* to writeToPrinter.
JobLabel ==
    /\ jpc = "labels" /\ labelsLeft > 0
    /\ \E outcome \in {"read label", "pngToTspl", "encoded"} :
         IF outcome # "encoded"
            THEN /\ streams' = logLabel(streams, "E", outcome)
                 /\ IF LabelErrorReturns(outcome)
                       THEN Returns(outcome) /\ UNCHANGED labelsLeft
                       ELSE labelsLeft' = labelsLeft - 1 /\ UNCHANGED <<jpc, jobErr>>
                 /\ UNCHANGED devVars
         ELSE IF handler = "filter"
            THEN \E w \in {"written", "failed", "cut short"} :
                   LET len == CommandLen(cfg, PX_W, PX_H) IN
                   /\ UNCHANGED devVars
                   /\ IF w = "written"
                         THEN /\ streams' = logLabel(
                                    [streams EXCEPT !.stdout = Append(@,
                                        [kind |-> "command", len |-> len])],
                                    "I", "wrote label")
                              /\ labelsLeft' = labelsLeft - 1
                              /\ UNCHANGED <<jpc, jobErr>>
                         ELSE /\ streams' =
                                    IF w = "cut short"
                                       THEN [streams EXCEPT !.stdout = Append(@,
                                               [kind |-> "partial command", len |-> len - 1])]
                                       ELSE streams
                              /\ Returns("stdout write")
                              /\ UNCHANGED labelsLeft
            ELSE /\ devPc' = "call"
                 /\ devArg' = CliPrinter(Tail(osArgs))
                 /\ devLen' = CommandLen(cfg, PX_W, PX_H)
                 /\ devPath' = <<>>
                 /\ devW' = 0
                 /\ devEvents' = Append(devEvents, Event("call", 0, devLen'))
                 /\ jpc' = "writing"
                 /\ UNCHANGED <<jobErr, labelsLeft, streams>>
    /\ UNCHANGED <<cfgVars, encVars, cropVars, procVars, mainVars, handler,
                   pages, pagesLeft>>

\* The labels of the page are done: the next page.
JobLabelsDone ==
    /\ jpc = "labels" /\ labelsLeft = 0
    /\ jpc' = "pages"
    /\ UNCHANGED <<cfgVars, encVars, cropVars, devVars, procVars, mainVars, handler,
                   pages,
                   jobErr, pagesLeft, labelsLeft, streams>>

\* Lines 640-645 and 582-589: writeToPrinter has returned: its error is
\* returned at once; else the CLI goes on to the next label and the backend
\* returns nil.
JobWritten ==
    /\ jpc = "writing" /\ devPc \in {"failed", "returned nil"}
    /\ IF WriteFailed(devPc)
          THEN Returns("writeToPrinter") /\ UNCHANGED <<labelsLeft, streams>>
          ELSE IF handler = "cli"
                  THEN /\ labelsLeft' = labelsLeft - 1
                       /\ jpc' = "labels"
                       /\ streams' = logLabel(streams, "I", "Printed label")
                       /\ UNCHANGED jobErr
                  ELSE /\ streams' = logInfo(streams, "Backend: successfully wrote")
                       /\ Returns("")
                       /\ UNCHANGED labelsLeft
    /\ devPc' = "idle"
    /\ UNCHANGED <<cfgVars, encVars, cropVars, devArg, devPath, devLen, devW, devEvents,
                   procVars, mainVars, handler, pages, pagesLeft>>

\* Lines 499 and 648-649: the pages are done: return nil.
JobReturn ==
    /\ jpc = "pages" /\ pagesLeft = 0
    /\ Returns("")
    /\ UNCHANGED <<cfgVars, encVars, cropVars, devVars, procVars, mainVars, handler,
                   pages,
                   pagesLeft, labelsLeft, streams>>

\* Lines 506-581: modeBackend up to the call of writeToPrinter: the device
\* listing on standard output, too few arguments, the device, the bytes of
\* the job from the file or from standard input.
BackendStart ==
    /\ jpc = "start" /\ handler = "backend"
    /\ LET input == BackendInput(osArgs)
           call  ==
               /\ devPc' = "call"
               /\ devArg' = BackendDevice(osArgs, envDevice)
               /\ devLen' = dataLen
               /\ devPath' = <<>>
               /\ devW' = 0
               /\ devEvents' = Append(devEvents, Event("call", 0, dataLen))
               /\ jpc' = "writing"
               /\ streams' = logInfo(streams, "Backend mode started")
               /\ UNCHANGED jobErr
           fails(err) ==
               /\ Returns(err)
               /\ streams' = logInfo(streams, "Backend mode started")
               /\ UNCHANGED devVars
       IN IF BackendList(osArgs)
             THEN /\ streams' = [logInfo(streams, "Backend mode started") EXCEPT
                                    !.stdout = Append(@, [kind |-> "text",
                                                          text |-> "direct tspl:"])]
                  /\ Returns("")
                  /\ UNCHANGED devVars
          ELSE IF Len(osArgs) < 6 THEN fails("insufficient args")
          ELSE IF input.kind = "file" /\ input.path \notin fs
                  THEN fails("failed to read file")
          ELSE \E read \in BOOLEAN :
                 IF input.kind = "stdin" /\ ~read THEN fails("read stdin")
                 ELSE IF dataLen = 0 THEN fails("no data to write")
                 ELSE call
    /\ UNCHANGED <<cfgVars, encVars, cropVars, procVars, mainVars, handler,
                   pages, pagesLeft,
                   labelsLeft>>

\* Lines 764-792: the handler has returned: its error is logged and the
\* process exits with 1; without an error main returns.
JobExit ==
    /\ jpc = "returned"
    /\ exitCode' = ExitStatus(jobErr # "")
    /\ streams' = IF jobErr # "" THEN logErr(streams, jobErr) ELSE streams
    /\ jpc' = "exit"
    /\ UNCHANGED <<cfgVars, encVars, cropVars, devVars, procVars, mainRest, handler,
                   pages,
                   jobErr, pagesLeft, labelsLeft>>

\* The command lines of the jobs, by handler.
JobArgVectors(h) ==
    CASE h = "filter" ->
           {<<<<"t", "s", "p", "l", "-", "f", "i", "l", "t", "e", "r">>>>}
           \cup {<<<<"t", "s", "p", "l", "-", "f", "i", "l", "t", "e", "r">>, One, User, Title, One, o>> \o f :
                    o \in OptionStrings, f \in {<<>>, <<FilePdf>>, <<<<"-">>>>}}
      [] h = "cli" ->
           {<<<<"t", "s", "p", "l", "d", "r", "i", "v", "e", "r">>>>, <<<<"t", "s", "p", "l", "d", "r", "i", "v", "e", "r">>, FilePdf>>,
            <<<<"t", "s", "p", "l", "d", "r", "i", "v", "e", "r">>, FilePdf, <<"/", "d", "e", "v", "/", "u", "s", "b", "/", "l", "p", "0">>>>}
           \cup {<<<<"t", "s", "p", "l", "d", "r", "i", "v", "e", "r">>, FilePdf, TsplUri, o>> : o \in OptionStrings}
      [] h = "backend" ->
           {<<a0>> \o t :
               a0 \in {TsplUri, <<"/", "c", "u", "p", "s", "/", "b", "a", "c", "k", "e", "n", "d", "/", "t", "s", "p", "l">>},
               t \in {<<>>, <<<<"l", "i", "s", "t">>>>, <<One, User>>}
                     \cup {<<One, User, Title, One, <<>> >> \o f :
                              f \in {<<>>, <<FilePdf>>, <<<<"-">>>>, << <<>> >>}}}

\* The state when main has chosen the handler, with the default settings.
JobInit ==
    /\ CfgDefault /\ EncIdle /\ CropIdle /\ DevIdle
    /\ PX_W = MmToPx(cfg.LABEL_W_MM, cfg.DPI)
    /\ PX_H = MmToPx(cfg.LABEL_H_MM, cfg.DPI)
    /\ handler \in {"filter", "cli", "backend"}
    /\ osArgs \in JobArgVectors(handler)
    /\ envDevice \in (IF handler = "backend" THEN {<<>>, <<"/", "d", "e", "v", "/", "u", "s", "b", "/", "l", "p", "0">>} ELSE {<<>>})
    /\ fs \in {{}, {FilePdf}}
    /\ filters = <<>> /\ staging = <<>>
    /\ dataLen \in (IF handler = "backend" THEN {0, 1, CHUNK + 1} ELSE {0})
    /\ mpc = "idle" /\ autoMode = <<>> /\ finalMode = <<>> /\ args = <<>>
    /\ run = None /\ exitCode = 0
    /\ jpc = "start" /\ jobErr = "" /\ pagesLeft = 0 /\ labelsLeft = 0
    /\ streams = [stdout |-> <<>>, stderr |-> <<>>]
    /\ pages = <<>>

JobNext ==
    \/ FilterStart \/ CliStart \/ BackendStart \/ JobOptions \/ JobRaster \/ JobPage
    \/ JobCropped \/ JobLabel \/ JobLabelsDone \/ JobWritten \/ JobReturn \/ JobExit
    \/ CropNext \/ DevNext

SpecJob == JobInit /\ [][JobNext]_vars

(***************************************************************************)
(* Documents of many pages: pdfToPngPages and the loop over its pages, a   *)
(* page at a step.                                                         *)
(***************************************************************************)
MaxDocPages == 10
MaxPageLabels == 1

notJob == <<cfgVars, encVars, cropVars, devVars, procVars, mainVars>>

\* A command made from label j of the page image of page n.
Command(n, j) == [kind |-> "command", page |-> n, label |-> j]

PagesInit ==
    /\ CfgDefault /\ EncIdle /\ CropIdle /\ DevIdle /\ MainIdle
    /\ PX_W = MmToPx(cfg.LABEL_W_MM, cfg.DPI)
    /\ PX_H = MmToPx(cfg.LABEL_H_MM, cfg.DPI)
    /\ handler \in {"filter", "cli"}
    /\ jpc = "render" /\ jobErr = "" /\ pagesLeft = 0 /\ labelsLeft = 0
    /\ streams = [stdout |-> <<>>, stderr |-> <<>>]
    /\ pages = <<>>

\* Lines 70-86: one iteration of the loop of pdfToPngPages: the next page of
\* the document is rendered and saved as page-<i+1>.png, or that fails and
\* the error is returned.
RenderPage ==
    /\ jpc = "render"
    /\ Len(pages) < MaxDocPages
    /\ \E ok \in BOOLEAN :
         IF ok
            THEN /\ pages' = Append(pages, PageName(Len(pages) + 1))
                 /\ UNCHANGED <<jpc, jobErr>>
            ELSE /\ Returns("pdfToPngPages")
                 /\ pages' = <<>>
    /\ UNCHANGED <<notJob, handler, pagesLeft, labelsLeft, streams>>

\* Lines 88-90, 468 and 471: the document has no more pages:
\* sort.Strings(pages), and the caller starts its loop over them.
RenderDone ==
    /\ jpc = "render"
    /\ pages' = SortStrings(pages)
    /\ pagesLeft' = Len(pages)
    /\ jpc' = "pages"
    /\ streams' = logInfo(streams, "pages")
    /\ UNCHANGED <<notJob, handler, jobErr, labelsLeft>>

\* Lines 471-497 and 622-646: one iteration of the loop over the pages: the
\* page image is sliced, and those of its labels that are read and encoded
\* are emitted in the order cropToLabels returned them, to standard output
\* by the filter and to the device by the CLI.
PageEmit ==
    /\ jpc = "pages" /\ pagesLeft > 0
    /\ LET pg == pages[Len(pages) - pagesLeft + 1] IN
       \E k \in 0 .. MaxPageLabels :
          LET out == [j \in 1 .. k |-> Command(PageNumber(pg), j)] IN
          IF handler = "filter"
             THEN /\ streams' = [streams EXCEPT !.stdout = @ \o out]
                  /\ UNCHANGED devVars
             ELSE /\ devEvents' = devEvents \o out
                  /\ UNCHANGED <<streams, devPc, devArg, devPath, devLen, devW>>
    /\ pagesLeft' = pagesLeft - 1
    /\ UNCHANGED <<cfgVars, encVars, cropVars, procVars, mainVars, handler, jpc,
                   jobErr, labelsLeft, pages>>

PagesNext == RenderPage \/ RenderDone \/ PageEmit \/ JobReturn \/ JobExit

SpecPages == PagesInit /\ [][PagesNext]_vars

(***************************************************************************)
(* Filter processes that run at the same time.  Each has its own document  *)
(* and its own memory; the files under /tmp are shared.  staging maps the  *)
(* name of each staging file to the process that wrote what it holds.      *)
(***************************************************************************)
MaxSharedPages == 2
MaxClock == 2

Procs == {1, 2}

\* Line 435: fmt.Sprintf("input-%d.pdf", time.Now().Unix()) at the second t.
InputName(t) == <<"i", "n", "p", "u", "t", "-">> \o Decimal(t) \o <<".", "p", "d", "f">>

\* ioutil.WriteFile, os.Create with png.Encode: the file name holds what p
\* wrote.
WriteFile(files, name, p) ==
    [n \in DOMAIN files \cup {name} |-> IF n = name THEN p ELSE files[n]]

\* os.Remove
RemoveFile(files, name) == [n \in DOMAIN files \ {name} |-> files[n]]

\* One read of a staging file by a process: whose bytes it got.
ReadOf(name) == [name |-> name, by |-> staging[name]]

notShare == <<cfgVars, encVars, cropVars, devVars, mainVars, jobVars, osArgs,
              envDevice, fs, dataLen>>

ShareInit ==
    /\ CfgDefault /\ EncIdle /\ CropIdle /\ DevIdle /\ JobIdle
    /\ PX_W = MmToPx(cfg.LABEL_W_MM, cfg.DPI)
    /\ PX_H = MmToPx(cfg.LABEL_H_MM, cfg.DPI)
    /\ osArgs = <<>> /\ envDevice = <<>> /\ fs = {} /\ dataLen = 0
    /\ mpc = "idle" /\ autoMode = <<>> /\ finalMode = <<>> /\ args = <<>>
    /\ run = None /\ exitCode = 0
    /\ filters \in [Procs -> {[pc |-> "start", input |-> in, doc |-> n, pdfPath |-> <<>>,
                               pages |-> <<>>, next |-> 1, reads |-> <<>>, err |-> ""] :
                                 in \in {"stdin", "file"}, n \in 1 .. MaxSharedPages}]
    /\ staging = <<>>

\* Lines 421-448: the document named on the command line is the process's
\* own; the one on standard input is saved as /tmp/tspl_filter/input-<t>.pdf
\* for the second t of the clock.
ShareStage(p) ==
    /\ filters[p].pc = "start"
    /\ IF filters[p].input = "file"
          THEN /\ filters' = [filters EXCEPT ![p].pc = "open"]
               /\ UNCHANGED staging
          ELSE \E t \in 1 .. MaxClock :
                 /\ staging' = WriteFile(staging, InputName(t), p)
                 /\ filters' = [filters EXCEPT ![p].pc = "open",
                                               ![p].pdfPath = InputName(t)]
    /\ UNCHANGED notShare

\* Lines 62-66: fitz.New(pdfPath) opens the document; the staged one may be
\* gone.
ShareOpen(p) ==
    /\ filters[p].pc = "open"
    /\ IF filters[p].input = "file"
          THEN filters' = [filters EXCEPT ![p].pc = "render"]
          ELSE IF filters[p].pdfPath \in DOMAIN staging
                  THEN filters' = [filters EXCEPT
                                      ![p].pc = "render",
                                      ![p].reads = Append(@, ReadOf(filters[p].pdfPath))]
                  ELSE filters' = [filters EXCEPT ![p].pc = "return",
                                                  ![p].err = "pdfToPngPages"]
    /\ UNCHANGED <<notShare, staging>>

\* Lines 70-86: one iteration: the next page of the document is written to
\* /tmp/tspl_pages/page-<i+1>.png.
ShareRender(p) ==
    /\ filters[p].pc = "render"
    /\ Len(filters[p].pages) < filters[p].doc
    /\ LET name == PageName(Len(filters[p].pages) + 1) IN
       /\ staging' = WriteFile(staging, name, p)
       /\ filters' = [filters EXCEPT ![p].pages = Append(@, name)]
    /\ UNCHANGED notShare

\* Lines 88-90: sort.Strings(pages); the pages are returned.
ShareSorted(p) ==
    /\ filters[p].pc = "render"
    /\ Len(filters[p].pages) = filters[p].doc
    /\ filters' = [filters EXCEPT ![p].pc = "pages", ![p].pages = SortStrings(@)]
    /\ UNCHANGED <<notShare, staging>>

\* Lines 471-497 and 120: one iteration of the loop over the pages:
\* cropToLabels opens the page image by its name.
ShareSlice(p) ==
    /\ filters[p].pc = "pages"
    /\ filters[p].next <= Len(filters[p].pages)
    /\ filters' = [filters EXCEPT
                      ![p].reads = Append(@, ReadOf(filters[p].pages[filters[p].next])),
                      ![p].next = @ + 1]
    /\ UNCHANGED <<notShare, staging>>

\* Lines 499 and 447: return nil, with the deferred os.Remove(pdfPath) of the
\* document that was staged.
ShareReturn(p) ==
    /\ \/ filters[p].pc = "pages" /\ filters[p].next > Len(filters[p].pages)
       \/ filters[p].pc = "return"
    /\ filters' = [filters EXCEPT ![p].pc = "done"]
    /\ staging' = IF filters[p].input = "stdin"
                     THEN RemoveFile(staging, filters[p].pdfPath)
                     ELSE staging
    /\ UNCHANGED notShare

ShareNext ==
    \E p \in Procs :
        \/ ShareStage(p) \/ ShareOpen(p) \/ ShareRender(p)
        \/ ShareSorted(p) \/ ShareSlice(p) \/ ShareReturn(p)

SpecShare == ShareInit /\ [][ShareNext]_vars

(***************************************************************************)
(* Claims about the encoder, checked under SpecEnc.                        *)
(***************************************************************************)
\* The image the payload is packed from, before padding.
EncGray == EnsureSize(encIn, PX_W, PX_H)

\* Bit x of row y of a payload of bytesPerRow bytes per row, MSB first.
BitAt(payload, bytesPerRow, x, y) ==
    (payload[y * bytesPerRow + (x \div 8) + 1] \div Pow2(7 - (x % 8))) % 2

AllBytes(payload, v) == \A i \in 1 .. Len(payload) : payload[i] = v

C5_PaddedWidth ==
    encPc = "done" =>
        /\ encPadded.w % 8 = 0
        /\ encPadded.w >= PX_W
        /\ encPadded.w < PX_W + 8
        /\ encPadded.h = PX_H

\* C5 witness: a label whose width is no multiple of 8 was padded.
C5_Witness == encPc = "done" /\ PX_W % 8 # 0 /\ encPadded.w > PX_W

\* C6: the header declares ceil(PX_W/8) bytes per row and PX_H rows, the
\* payload holds exactly bytesPerRow*height bytes, and the trailer follows.
C6_PayloadLength ==
    encPc = "done" =>
        /\ encOut.bytesPerRow = CeilDiv(PX_W, 8)
        /\ encOut.height = PX_H
        /\ Len(encOut.payload) = encOut.bytesPerRow * encOut.height
        /\ Len(encOut.payload) = CeilDiv(PX_W, 8) * PX_H
        /\ encOut.trailer = "\nPRINT 1\n"

\* C6 witness: a command encoded from an image that is not label-sized.
C6_Witness ==
    /\ encPc = "done"
    /\ (encIn.w # PX_W \/ encIn.h # PX_H)
    /\ Len(encOut.payload) > 0

(***************************************************************************)
(* Claims about the slicer, checked under SpecCrop.                        *)
(***************************************************************************)
\* The cells that were cropped (not skipped as out of bounds).
Cropped == {i \in DOMAIN cells : cells[i].outcome # "out of bounds"}

\* A cropped cell went on to resize, fit, paste and save.
Processed(cell) == cell.outcome \in {"label", "write failed"}

C2_Witness94 ==
    \E i \in Cropped :
        /\ 100 * cells[i].white = 94 * TotalPixels(cells[i].rect)
        /\ cells[i].outcome = "label"

TwoByTwo == page.w = 2 * PX_W /\ page.h = 2 * PX_H

\* C3 as stated: for every label size, a page of exactly 2*labelW by
\* 2*labelH pixels is sliced on a 2x2 grid and all 4 cells are cropped.
C3_FourCells ==
    (cropPc = "done" /\ TwoByTwo) =>
        rows = 2 /\ cols = 2 /\ Len(cells) = 4 /\ Cardinality(Cropped) = 4

\* C3 amended: such a page is sliced on a 2x2 grid of 4 visited cells, and
\* all 4 are cropped exactly when the label is more than
\* SAFE_MARGIN_RIGHT_PX + 25 = 56 pixels wide; a narrower label has its
\* right column skipped as out of bounds.
C3_FourCellsWide ==
    (cropPc = "done" /\ TwoByTwo) =>
        /\ rows = 2 /\ cols = 2 /\ Len(cells) = 4
        /\ (Cardinality(Cropped) = 4) <=> (PX_W > SAFE_MARGIN_RIGHT_PX + 25)
        /\ PX_W <= SAFE_MARGIN_RIGHT_PX + 25 =>
              \A i \in DOMAIN cells : cells[i].c = 1 => cells[i].outcome = "out of bounds"

\* C3 witness: a 2x2 page of labels wider than 56 pixels, all 4 cropped.
C3_Witness ==
    cropPc = "done" /\ TwoByTwo /\ PX_W > SAFE_MARGIN_RIGHT_PX + 25
        /\ Cardinality(Cropped) = 4

HasScheme(s) ==
    LET i == Index(s, ":") IN
    /\ i > 1
    /\ IsLetter(s[1])
    /\ \A j \in 2 .. i - 1 : IsLetter(s[j]) \/ IsDigit(s[j]) \/ s[j] \in {"+", "-", "."}

\* C7: tspl:/dev/usb/lp5 and file:///dev/usb/lp5 resolve to /dev/usb/lp5,
\* and every path without a scheme prefix is stat-ed and opened unchanged.
C7_PathResolution ==
    devPc \notin {"idle", "call"} =>
        /\ devArg = <<"t", "s", "p", "l", ":", "/", "d", "e", "v", "/", "u", "s", "b", "/", "l", "p", "5">> => devPath = <<"/", "d", "e", "v", "/", "u", "s", "b", "/", "l", "p", "5">>
        /\ devArg = <<"f", "i", "l", "e", ":", "/", "/", "/", "d", "e", "v", "/", "u", "s", "b", "/", "l", "p", "5">> => devPath = <<"/", "d", "e", "v", "/", "u", "s", "b", "/", "l", "p", "5">>
        /\ ~HasScheme(devArg) => devPath = devArg

\* The part of C7 the code does satisfy: the two documented identifiers, and
\* the paths that hold no colon at all.
C7_DocumentedPaths ==
    devPc \notin {"idle", "call"} =>
        /\ devArg = <<"t", "s", "p", "l", ":", "/", "d", "e", "v", "/", "u", "s", "b", "/", "l", "p", "5">> => devPath = <<"/", "d", "e", "v", "/", "u", "s", "b", "/", "l", "p", "5">>
        /\ devArg = <<"f", "i", "l", "e", ":", "/", "/", "/", "d", "e", "v", "/", "u", "s", "b", "/", "l", "p", "5">> => devPath = <<"/", "d", "e", "v", "/", "u", "s", "b", "/", "l", "p", "5">>
        /\ ~Contains(devArg, <<":">>) => devPath = devArg

(***************************************************************************)
(* Claims about the mode dispatcher (SpecMain).                            *)
(***************************************************************************)
Detected == mpc # "idle" /\ mpc # "start"

\* The decision list as C8 words it: aliases, substrings, the job shape
\* with an argv[0] that has no scheme prefix, else CLI.
C8_ClaimedMode(argv) ==
    LET name == ToLower(Base(argv[1])) IN
    IF name \in {<<"t", "s", "p", "l", "-", "b", "a", "c", "k", "e", "n", "d">>, <<"t", "s", "p", "l">>} THEN Backend
    ELSE IF name \in {<<"t", "s", "p", "l", "-", "f", "i", "l", "t", "e", "r">>, <<"t", "s", "p", "l", "-", "t", "h", "e", "r", "m", "a", "l">>} THEN Filter
    ELSE IF Contains(name, <<"b", "a", "c", "k", "e", "n", "d">>) THEN Backend
    ELSE IF Contains(name, <<"f", "i", "l", "t", "e", "r">>) \/ Contains(name, <<"t", "h", "e", "r", "m", "a", "l">>) THEN Filter
    ELSE IF Len(argv) >= 6 /\ IsInt(argv[2]) /\ ~HasScheme(argv[1]) THEN Filter
    ELSE Cli

\* The same list with the rule that comes first in the code, and with the
\* job shape asking for an argv[0] that holds no colon.
C8_AmendedMode(argv) ==
    LET name == ToLower(Base(argv[1])) IN
    IF HasPrefix(argv[1], <<"t", "s", "p", "l", ":">>) THEN Backend
    ELSE IF name \in {<<"t", "s", "p", "l", "-", "b", "a", "c", "k", "e", "n", "d">>, <<"t", "s", "p", "l">>} THEN Backend
    ELSE IF name \in {<<"t", "s", "p", "l", "-", "f", "i", "l", "t", "e", "r">>, <<"t", "s", "p", "l", "-", "t", "h", "e", "r", "m", "a", "l">>} THEN Filter
    ELSE IF Contains(name, <<"b", "a", "c", "k", "e", "n", "d">>) THEN Backend
    ELSE IF Contains(name, <<"f", "i", "l", "t", "e", "r">>) \/ Contains(name, <<"t", "h", "e", "r", "m", "a", "l">>) THEN Filter
    ELSE IF Len(argv) >= 6 /\ IsInt(argv[2]) /\ ~Contains(argv[1], <<":">>) THEN Filter
    ELSE Cli

C8_WitnessAlias ==
    /\ Detected
    /\ osArgs[1] = <<"T", "S", "P", "L", "-", "T", "h", "e", "r", "m", "a", "l">>
    /\ autoMode = Filter

\* C9: an argv[0] of the form scheme:path is detected as backend, whatever
\* the number of arguments and the base name of the path.
C9_SchemeSelectsBackend ==
    (Detected /\ HasScheme(osArgs[1])) => autoMode = Backend

\* The part of C9 the code does satisfy: the scheme tspl.
C9_TsplSelectsBackend ==
    (Detected /\ HasPrefix(osArgs[1], <<"t", "s", "p", "l", ":">>)) => autoMode = Backend

FilterExample ==
    <<<<"t", "s", "p", "l", "d", "r", "i", "v", "e", "r">>, <<"-", "-", "m", "o", "d", "e", "=", "f", "i", "l", "t", "e", "r">>, One, User, Title, One, PageSizeA4, FilePdf>>

BackendExample == <<<<"t", "s", "p", "l", "d", "r", "i", "v", "e", "r">>, <<"-", "-", "m", "o", "d", "e", "=", "b", "a", "c", "k", "e", "n", "d">>, TsplUri>>

\* The command line as the selected mode's grammar reads it when the
\* arguments are those that follow the flags.
AfterFlags == <<osArgs[1]>> \o args

\* C10: with CLI auto-detected and --mode=filter or --mode=backend given, the
\* selected mode reads the arguments after the flag by its own grammar: the
\* filter example takes "PageSize=A4" as options and file.pdf as document,
\* the backend example writes the bytes of stdin to /dev/usb/lp5.
C10_ExplicitModeGrammar ==
    (mpc = "exit" /\ autoMode = Cli /\ run # None) =>
        /\ finalMode = Filter =>
              /\ run.options = FilterOptions(AfterFlags)
              /\ run.input = FilterInput(AfterFlags)
        /\ osArgs = FilterExample =>
              /\ run.handler = "filter"
              /\ run.options = PageSizeA4
              /\ run.input = File(FilePdf)
        /\ (osArgs = BackendExample /\ envDevice = <<>> /\ dataLen > 0) =>
              /\ run.handler = "backend"
              /\ run.status \in {"written", "failed"}
              /\ run.devPath = <<"/", "d", "e", "v", "/", "u", "s", "b", "/", "l", "p", "5">>

\* What the code does on the two examples: the filter reads "1" as options
\* and "PageSize=A4" as the document, the backend finds too few arguments.
C10_ExamplesAsRun ==
    (mpc = "exit" /\ run # None) =>
        /\ osArgs = FilterExample =>
              /\ run.handler = "filter"
              /\ run.options = One
              /\ run.input = File(PageSizeA4)
              /\ exitCode = 1
        /\ osArgs = BackendExample =>
              /\ run.status = "insufficient args"
              /\ exitCode = 1

(***************************************************************************)
(* Claims about the backend's device and input (SpecMain).                 *)
(***************************************************************************)
DefaultDevice == <<"/", "d", "e", "v", "/", "u", "s", "b", "/", "l", "p", "5">>

\* What follows the scheme and its colon, without one leading "//".
SchemePath(uri) == TrimPrefix(SubSeq(uri, Index(uri, ":") + 1, Len(uri)), <<"/", "/">>)

\* The Device Target as C13 words it.
C13_ClaimedTarget(argv, env) ==
    IF env # <<>> THEN env
    ELSE IF HasScheme(argv[1]) /\ SchemePath(argv[1]) # <<>> THEN SchemePath(argv[1])
    ELSE DefaultDevice

BackendJob == mpc = "exit" /\ run # None /\ run.handler = "backend" /\ run.input # None

\* C13: the backend's device is TSPL_DEVICE when set, else the path of a
\* scheme-qualified argv[0], else /dev/usb/lp5.
C13_DevicePrecedence ==
    (BackendJob /\ run.status \in {"written", "failed"}) =>
        run.devPath = C13_ClaimedTarget(osArgs, envDevice)

\* The part of C13 the code does satisfy: TSPL_DEVICE first, and the path of
\* a tspl: or file: argument next.
C13_EnvAndKnownSchemes ==
    (BackendJob /\ run.status \in {"written", "failed"}) =>
        /\ envDevice # <<>> => run.dev = envDevice
        /\ (envDevice = <<>> /\ osArgs[1] = TsplUri) => run.devPath = DefaultDevice

\* C14: a backend job whose file argument cannot be read does not fail on
\* the read: the document goes through the pipeline and on to the device.
C14_FallbackPipeline ==
    (BackendJob /\ run.input.kind = "file" /\ run.input.path \notin fs) =>
        run.status \in {"written", "failed"}

\* What the code does instead: the job fails on the read, with no device.
C14_FailsOnRead ==
    (BackendJob /\ run.input.kind = "file" /\ run.input.path \notin fs) =>
        /\ run.status = "failed to read file"
        /\ run.devPath = <<>>
        /\ exitCode = 1

(***************************************************************************)
(* Claims about the chunks of the device writer (SpecDev).                 *)
(***************************************************************************)
IsWrite(e) == e.kind = "write"

Writes == SelectSeq(devEvents, IsWrite)

C11_ExitStatus ==
    handler \in {"filter", "backend"} =>
        /\ exitCode \in {0, 1}
        /\ jpc = "exit" => (exitCode = 0 <=> jobErr = "")
        /\ jpc = "exit" => (exitCode = 1 <=> jobErr # "")

\* A filter whose write to standard output failed has exited with 1.
C11_Witness ==
    /\ handler = "filter" /\ jpc = "exit"
    /\ jobErr = "stdout write"
    /\ exitCode = 1

IsCommand(o) == o.kind = "command"

NoDevice == devEvents = <<>> /\ devPc = "idle" /\ devPath = <<>>

\* C12 as stated: a filter never calls the device writer, and all it writes
\* to standard output are complete Bitmap Commands.
C12_StdoutCompleteCommands ==
    handler = "filter" =>
        /\ NoDevice
        /\ \A i \in 1 .. Len(streams.stdout) : IsCommand(streams.stdout[i])

\* C12 amended: a filter never calls the device writer, and all it writes to
\* standard output are bytes of Bitmap Commands: complete commands, but for
\* the last one when the write to standard output failed part-way, after
\* which the filter has returned the error "stdout write".
C12_StdoutOnlyCommands ==
    handler = "filter" =>
        /\ NoDevice
        /\ \A i \in 1 .. Len(streams.stdout) :
              \/ IsCommand(streams.stdout[i])
              \/ /\ streams.stdout[i].kind = "partial command"
                 /\ i = Len(streams.stdout)
                 /\ jobErr = "stdout write"

\* A filter has logged an error and written two commands, and has exited.
C12_Witness ==
    /\ handler = "filter" /\ jpc = "exit"
    /\ Len(streams.stdout) >= 2
    /\ \E i \in 1 .. Len(streams.stderr) : streams.stderr[i].level = "E"

JobOptionsString ==
    IF handler = "filter" THEN FilterOptions(osArgs) ELSE CliOptions(Tail(osArgs))

\* The handler is past its call of parseCupsOptions and recalcPixels.
OptionsParsed ==
    /\ handler \in {"filter", "cli"}
    /\ jpc \notin {"start", "options"}
    /\ jobErr \notin {"pdf file not found", "read stdin", "write temp pdf"}
    /\ Len(osArgs) >= 2

\* The numbers given by the well-formed tokens key=number of an options
\* string.
WellFormedValues(o, key) ==
    LET parts == Fields(o) IN
    {IntVal(SubSeq(parts[i], Len(key) + 2, Len(parts[i]))) :
        i \in {j \in 1 .. Len(parts) :
                 /\ HasPrefix(ToLower(parts[j]), key \o <<"=">>)
                 /\ IsInt(SubSeq(parts[j], Len(key) + 2, Len(parts[j])))}}

\* C15: a malformed value changes no setting: after parsing, each setting
\* has its default or the value of a well-formed token.
C15_MalformedIgnored ==
    OptionsParsed =>
        /\ cfg.DPI \in {DefaultCfg.DPI} \cup WellFormedValues(JobOptionsString, <<"d", "p", "i">>)
        /\ cfg.MARGIN_MM \in {DefaultCfg.MARGIN_MM}
                                \cup WellFormedValues(JobOptionsString, <<"m", "a", "r", "g", "i", "n">>)
        /\ cfg.GAP_MM \in {DefaultCfg.GAP_MM}
                                \cup WellFormedValues(JobOptionsString, <<"g", "a", "p">>)
        /\ cfg.DELAY_MS \in {DefaultCfg.DELAY_MS}
                                \cup WellFormedValues(JobOptionsString, <<"d", "e", "l", "a", "y">>)
        /\ JobOptionsString = <<"p", "a", "g", "e", "s", "i", "z", "e", "=", "a", "x", "b">> =>
              /\ cfg.LABEL_W_MM = DefaultCfg.LABEL_W_MM
              /\ cfg.LABEL_H_MM = DefaultCfg.LABEL_H_MM

\* The part of C15 the code does satisfy: parsing never fails, and a token
\* without "=", of another key, or a page size without "x" or with more
\* than one "x", changes nothing.
C15_OtherTokensIgnored ==
    (OptionsParsed /\ JobOptionsString \in {<<"P", "a", "g", "e", "S", "i", "z", "e", "=", "A", "4">>, <<"P", "a", "g", "e", "S", "i", "z", "e", "=", "4", "x", "6", "x", "1">>}) =>
        cfg = DefaultCfg

FullPageSizes == {<<"P", "a", "g", "e", "S", "i", "z", "e", "=", "L", "a", "b", "e", "l", "4", "x", "6">>, <<"P", "a", "g", "e", "S", "i", "z", "e", "=", "L", "a", "b", "e", "l", "3", "x", "5">>, <<"P", "a", "g", "e", "S", "i", "z", "e", "=", "L", "a", "b", "e", "l", "2", "x", "4">>}

\* C16: under a page size that selects full-page mode every page yields
\* exactly one label, with no grid and no blank check.
C16_FullPageOneLabel ==
    (OptionsParsed /\ JobOptionsString \in FullPageSizes
        /\ (cropPc = "done" \/ (cropPc = "error" /\ cells # <<>>))) =>
            /\ cropPc = "done"
            /\ Len(labels) = 1

\* What the code does instead: under these page sizes no page yields a label.
C16_FullPageNoLabel ==
    (OptionsParsed /\ JobOptionsString \in FullPageSizes) =>
        /\ PX_W = 0
        /\ labels = <<>>
        /\ streams.stdout = <<>>

\* C17: the documented page sizes give the documented label sizes, and a
\* label size above 0.
C17_DocumentedSizes ==
    OptionsParsed =>
        /\ JobOptionsString = <<"P", "a", "g", "e", "S", "i", "z", "e", "=", "L", "a", "b", "e", "l", "4", "x", "6">> =>
              cfg.LABEL_W_MM = 100 /\ cfg.LABEL_H_MM = 150
        /\ JobOptionsString = <<"P", "a", "g", "e", "S", "i", "z", "e", "=", "L", "a", "b", "e", "l", "3", "x", "5">> =>
              cfg.LABEL_W_MM = 76 /\ cfg.LABEL_H_MM = 127
        /\ JobOptionsString = <<"P", "a", "g", "e", "S", "i", "z", "e", "=", "L", "a", "b", "e", "l", "2", "x", "4">> =>
              cfg.LABEL_W_MM = 50 /\ cfg.LABEL_H_MM = 100
        /\ JobOptionsString = <<"P", "a", "g", "e", "S", "i", "z", "e", "=", "A", "4">> =>
              cfg.LABEL_W_MM = 100 /\ cfg.LABEL_H_MM = 150
        /\ JobOptionsString \in FullPageSizes \cup {<<"P", "a", "g", "e", "S", "i", "z", "e", "=", "A", "4">>} =>
              cfg.LABEL_W_MM > 0 /\ cfg.LABEL_H_MM > 0

\* What the code does: LabelNxM is read as "labelN" x "M", that is 0 x M mm;
\* A4 and a size in millimetres are as documented.
C17_SizesAsParsed ==
    OptionsParsed =>
        /\ JobOptionsString = <<"P", "a", "g", "e", "S", "i", "z", "e", "=", "L", "a", "b", "e", "l", "4", "x", "6">> =>
              cfg.LABEL_W_MM = 0 /\ cfg.LABEL_H_MM = 6
        /\ JobOptionsString = <<"P", "a", "g", "e", "S", "i", "z", "e", "=", "A", "4">> =>
              cfg.LABEL_W_MM = 100 /\ cfg.LABEL_H_MM = 150
        /\ JobOptionsString = <<"P", "a", "g", "e", "S", "i", "z", "e", "=", "5", "0", "x", "3", "0">> =>
              cfg.LABEL_W_MM = 50 /\ cfg.LABEL_H_MM = 30

IsFailure(e) == e.kind \in {"stat error", "open error", "write error"}

FilterStream(lbls) == [i \in 1 .. Len(lbls) |-> [kind |-> "command", label |-> lbls[i]]]

BitmapDirectives(stream) ==
    Cardinality({i \in 1 .. Len(stream) : stream[i].kind = "command"})

\* A page in the proportion of an A4 sheet to the 100 x 150 mm label: two
\* labels wide or a little more, two labels high or a little less.
A4Equivalent ==
    /\ page.w \in {2 * PX_W, 2 * PX_W + 1}
    /\ page.h \in {2 * PX_H - 1, 2 * PX_H}
    /\ page.h > PX_H

\* The page is blank but for ink inside its top-left quadrant.
QuadrantOnly ==
    /\ page.darkCols >= 1 /\ 2 * page.darkCols <= page.w
    /\ page.darkRows >= 1 /\ 2 * page.darkRows <= page.h
    /\ IsWhitePixel(page.paper, 240) /\ ~IsWhitePixel(page.ink, 240)

Skipped(cell) == cell.outcome \in {"blank", "out of bounds"}

C18_WitnessThin ==
    /\ cropPc = "done" /\ A4Equivalent /\ QuadrantOnly
    /\ cells[1].outcome = "blank"
    /\ cells[1].white < TotalPixels(cells[1].rect)

(***************************************************************************)
(* Failures of one label or of one page (SpecJob).                         *)
(***************************************************************************)
IsLabelLine(e) == e.text \in {"read label", "pngToTspl", "wrote label", "Printed label"}

IsEmitLine(e) == e.text \in {"wrote label", "Printed label"}

LabelLines == SelectSeq(streams.stderr, IsLabelLine)

\* The labels of the page at hand the inner loop is through with.
LabelsDone == Len(labels) - labelsLeft

\* The log lines about the labels of the page at hand.
LinesOfPage ==
    LET OfPage(e) == IsLabelLine(e) /\ e.page = PageAt IN SelectSeq(streams.stderr, OfPage)

\* The commands handed to the output: to standard output by the filter, in
\* whole to the device by the CLI.
Emitted ==
    IF handler = "filter"
       THEN Cardinality({i \in 1 .. Len(streams.stdout) : IsCommand(streams.stdout[i])})
       ELSE Cardinality({i \in 1 .. Len(devEvents) : devEvents[i].kind = "settle"})

\* C21: in filter and CLI mode a failure to read or encode one label, or to
\* slice one page, does not end the job: each label of each sliced page is
\* taken once, in order; each one that is read and encoded is emitted, in
\* the order of pages and labels; and the handler returns no error but that
\* of a failed write of the output.
C21_FailureSkipsOneLabel ==
    (handler \in {"filter", "cli"} /\ cropPc = "returned"
        /\ jpc \in {"labels", "pages", "returned", "exit"}) =>
            /\ Len(LinesOfPage) = LabelsDone
            /\ \A k \in 1 .. LabelsDone : LinesOfPage[k].label = k
            /\ \A k \in 1 .. Len(LabelLines) - 1 :
                  \/ LabelLines[k].page < LabelLines[k + 1].page
                  \/ /\ LabelLines[k].page = LabelLines[k + 1].page
                     /\ LabelLines[k].label < LabelLines[k + 1].label
            /\ Emitted = Len(SelectSeq(LabelLines, IsEmitLine))
            /\ jobErr \in {"", "stdout write", "writeToPrinter"}
            /\ jobErr = "" /\ jpc \in {"returned", "exit"} =>
                  /\ pagesLeft = 0 /\ labelsLeft = 0
                  /\ jpc = "exit" => exitCode = 0

\* A job has ended without error after a page that could not be sliced and
\* a label that could not be read, with the label after that one emitted.
C21_Witness ==
    /\ handler \in {"filter", "cli"} /\ jpc = "exit" /\ exitCode = 0
    /\ \E i \in 1 .. Len(streams.stderr) : streams.stderr[i].text = "cropToLabels"
    /\ Len(LabelLines) = 2
    /\ LabelLines[1].text = "read label" /\ IsEmitLine(LabelLines[2])
    /\ LabelLines[2].label = 2
    /\ Emitted = 1

(***************************************************************************)
(* Blank jobs (SpecJob).                                                   *)
(***************************************************************************)
IsCroppedLine(e) == e.text = "Cropped into"

CroppedLines == SelectSeq(streams.stderr, IsCroppedLine)

\* The document was rasterised, every page of it was sliced, and every cell
\* of every page was skipped as blank or as out of bounds.
BlankJob ==
    /\ handler \in {"filter", "cli"} /\ jpc = "exit"
    /\ Len(pages) >= 1 /\ Len(CroppedLines) = Len(pages)
    /\ \A i \in 1 .. Len(CroppedLines) :
          \A k \in 1 .. Len(CroppedLines[i].outcomes) :
              CroppedLines[i].outcomes[k] \in {"blank", "out of bounds"}

\* A backend job that reads its bytes from standard input, and is handed
\* there what a filter wrote for a blank job: nothing.
BackendAfterBlankJob ==
    /\ handler = "backend" /\ jpc = "exit"
    /\ ~BackendList(osArgs) /\ Len(osArgs) >= 6
    /\ BackendInput(osArgs).kind = "stdin"
    /\ jobErr # "read stdin"
    /\ dataLen = 0

\* C22: a job of blank pages ends with exit status 0 and no command emitted
\* in filter and CLI mode, and the backend that is given the output of the
\* filter for such a job ends with exit status 0 too.
C22_BlankJobAbsorbed ==
    /\ BlankJob => exitCode = 0 /\ Emitted = 0 /\ streams.stdout = <<>>
    /\ BackendAfterBlankJob => exitCode = 0

\* What the code does: the filter and the CLI absorb the blank job, and the
\* backend given its empty output fails with "no data to write", exit 1.
C22_BackendRejectsEmpty ==
    /\ BlankJob => exitCode = 0 /\ Emitted = 0 /\ streams.stdout = <<>>
    /\ BackendAfterBlankJob => exitCode = 1 /\ jobErr = "no data to write"

(***************************************************************************)
(* The order of the steps of the device writer, and the path (SpecDev).    *)
(***************************************************************************)
\* The place of an event in the order stat, open, writes, sync, settle.
Rank(e) ==
    CASE e.kind \in {"stat", "stat error"} -> 1
      [] e.kind \in {"open", "open error"} -> 2
      [] e.kind \in {"write", "write error"} -> 3
      [] e.kind \in {"sync", "sync error"} -> 4
      [] e.kind = "settle" -> 5
      [] OTHER -> 0

\* C23: the events of the device writer come in the order stat, open, chunk
\* writes, sync, settle wait, return: a write follows a stat and an open
\* that succeeded, the sync follows the write of the last byte, and a
\* return of nil follows the settle wait.
C23_WriterOrder ==
    /\ \A i \in 1 .. Len(devEvents) - 1 :
          \/ Rank(devEvents[i]) < Rank(devEvents[i + 1])
          \/ Rank(devEvents[i]) = 3 /\ devEvents[i + 1].kind \in {"write", "write error"}
    /\ \A i \in 1 .. Len(devEvents) :
          /\ Rank(devEvents[i]) = 2 => i = 2 /\ devEvents[1].kind = "stat"
          /\ Rank(devEvents[i]) = 3 =>
                i >= 3 /\ devEvents[1].kind = "stat" /\ devEvents[2].kind = "open"
          /\ Rank(devEvents[i]) = 4 =>
                /\ i >= 4 /\ devEvents[i - 1].kind = "write"
                /\ devEvents[i - 1].to = devLen
          /\ Rank(devEvents[i]) = 5 => i >= 5 /\ Rank(devEvents[i - 1]) = 4
          /\ devEvents[i].kind \in {"stat error", "open error", "write error"} =>
                i = Len(devEvents)
    /\ devPc = "returned nil" => devEvents[Len(devEvents)].kind = "settle"
    /\ devPc = "failed" =>
          devEvents[Len(devEvents)].kind \in {"stat error", "open error", "write error"}

\* A buffer of more than one chunk has been written, synced and waited for.
C23_Witness ==
    /\ devPc = "returned nil"
    /\ Len(devEvents) >= 6
    /\ devEvents[1].kind = "stat" /\ devEvents[2].kind = "open"
    /\ devEvents[3].kind = "write" /\ devEvents[4].kind = "write"
    /\ devEvents[Len(devEvents) - 1].kind = "sync"
    /\ devEvents[Len(devEvents)].kind = "settle"

\* C24: the path that is stat-ed and opened holds no scheme prefix any more
\* and begins with at most one "/".
C24_PathStripped ==
    devPc \notin {"idle", "call"} =>
        /\ ~HasScheme(devPath)
        /\ ~HasPrefix(devPath, <<"/", "/">>)

\* What the code does: the identifier is cut after its first colon, if it
\* has one, and then one "//" is cut from the front of the rest.
C24_CutOnce ==
    devPc \notin {"idle", "call"} =>
        LET i == Index(devArg, ":")
            rest == IF i = 0 THEN devArg ELSE SubSeq(devArg, i + 1, Len(devArg))
        IN /\ i = 0 => devPath = devArg
           /\ i > 0 /\ HasPrefix(rest, <<"/", "/">>) => devPath = SubSeq(rest, 3, Len(rest))
           /\ i > 0 /\ ~HasPrefix(rest, <<"/", "/">>) => devPath = rest

(***************************************************************************)
(* The rect and the index of each cell (SpecCrop).                         *)
(***************************************************************************)
\* C25: with PX_W > 0 and PX_H > 0 each cell (r, c) of the grid is skipped
\* when its origin is outside the page, and else cropped with a rect that is
\* not empty, lies within the page and is no larger than the label; the
\* index of the cell is r * cols + c + 1 whatever became of it.
C25_CellRectAndIndex ==
    (PX_W > 0 /\ PX_H > 0) =>
        \A k \in 1 .. Len(cells) :
            LET cell == cells[k] IN
            /\ cell.index = cell.r * cols + cell.c + 1
            /\ cell.index = k
            /\ cell.r \in 0 .. rows - 1 /\ cell.c \in 0 .. cols - 1
            /\ cell.outcome \in {"out of bounds", "blank", "label", "write failed"}
            /\ cell.outcome = "out of bounds" <=>
                  (CellLeft(cell.c) >= page.w \/ cell.r * PX_H >= page.h)
            /\ cell.outcome # "out of bounds" =>
                  /\ 0 <= cell.rect.left /\ cell.rect.left < cell.rect.right
                  /\ cell.rect.right <= page.w
                  /\ 0 <= cell.rect.top /\ cell.rect.top < cell.rect.bottom
                  /\ cell.rect.bottom <= page.h
                  /\ cell.rect.right - cell.rect.left <= PX_W
                  /\ cell.rect.bottom - cell.rect.top <= PX_H

\* A page whose right column is out of bounds has yielded the labels 1 and
\* 3, from rects clipped to the page.
C25_Witness ==
    /\ cropPc = "done" /\ rows = 2 /\ cols = 2
    /\ labels = <<1, 3>>
    /\ cells[2].outcome = "out of bounds" /\ cells[4].outcome = "out of bounds"
    /\ cells[3].rect.right = page.w /\ cells[3].rect.right < cells[3].rect.left + PX_W
    /\ cells[3].rect.bottom = page.h

(***************************************************************************)
(* The safety offset of the columns (SpecJob).                             *)
(***************************************************************************)
\* Line 35: SAFE_MARGIN_RIGHT_MM = 4.0
SAFE_MARGIN_RIGHT_MM == 4

\* The safety margin in pixels at the DPI of the job.
SafeMarginAt(dpi) == MmToPx(SAFE_MARGIN_RIGHT_MM, dpi)

IsCropped(cell) == cell.outcome # "out of bounds"

\* C26: the crop of a cell of column 0 starts the safety margin, in pixels
\* at the DPI of the job, less 25 pixels to the left of c * PX_W, and that of
\* a cell of column 1 the safety margin plus 25 pixels to the right of it.
C26_OffsetFollowsDpi ==
    \A k \in 1 .. Len(cells) :
        IsCropped(cells[k]) =>
            /\ cells[k].c = 0 =>
                  cells[k].rect.left = 0 - (SafeMarginAt(cfg.DPI) - 25)
            /\ cells[k].c = 1 =>
                  cells[k].rect.left = PX_W + SafeMarginAt(cfg.DPI) + 25

\* What the code does: column 0 starts 6 pixels and column 1 56 pixels to the
\* right of c * PX_W, at every DPI.
C26_OffsetsFixed ==
    \A k \in 1 .. Len(cells) :
        IsCropped(cells[k]) =>
            /\ cells[k].c = 0 => cells[k].rect.left = 6
            /\ cells[k].c = 1 => cells[k].rect.left = PX_W + 56

(***************************************************************************)
(* The order of the pages (SpecPages).                                     *)
(***************************************************************************)
\* The commands emitted: to standard output, or to the device.
Output == IF handler = "filter" THEN streams.stdout ELSE devEvents

\* C27: the commands are emitted in the order of the pages of the document,
\* and for one page in the order of its labels, whatever the number of
\* pages.
C27_AscendingPages ==
    \A a, b \in 1 .. Len(Output) :
        a < b =>
            \/ Output[a].page < Output[b].page
            \/ Output[a].page = Output[b].page /\ Output[a].label < Output[b].label

\* What the code does: the pages are taken in the order of their file names
\* as strings, which is the order of the page numbers up to 9 pages.
C27_NameOrder ==
    /\ \A a, b \in 1 .. Len(Output) :
          a < b =>
              \/ StringLess(PageName(Output[a].page), PageName(Output[b].page))
              \/ Output[a].page = Output[b].page /\ Output[a].label < Output[b].label
    /\ Len(pages) <= 9 => C27_AscendingPages

(***************************************************************************)
(* The flags of the CLI (SpecMain).                                        *)
(***************************************************************************)
\* The name of the flag an argument sets: what follows its one or two
\* dashes, up to "=".
FlagOf(tok) ==
    IF Len(tok) < 2 \/ tok[1] # "-" THEN <<>>
    ELSE LET body == IF tok[2] = "-" THEN SubSeq(tok, 3, Len(tok))
                     ELSE SubSeq(tok, 2, Len(tok))
             eq   == Index(body, "=")
         IN IF eq = 0 THEN body ELSE SubSeq(body, 1, eq - 1)

Parsed == FlagParse(Tail(osArgs), DefaultFlags(autoMode))

\* The flag is among the arguments that flag.Parse has taken.
Given(name) ==
    \E i \in 1 .. Len(Tail(osArgs)) - Len(Parsed.args) : FlagOf(osArgs[i + 1]) = name

\* A CLI run whose flags have been parsed and applied.
CliFlagsApplied ==
    /\ mpc = "route" /\ autoMode = Cli /\ finalMode = Cli
    /\ Parsed.status = "ok"

\* C28: in CLI mode the value of every flag given on the command line is
\* the setting of the job, the values of 0 included.
C28_FlagsTakeEffect ==
    CliFlagsApplied =>
        /\ Given(<<"d", "p", "i">>) => cfg.DPI = Parsed.flags.dpi
        /\ Given(<<"w", "i", "d", "t", "h">>) => cfg.LABEL_W_MM = Parsed.flags.width
        /\ Given(<<"h", "e", "i", "g", "h", "t">>) => cfg.LABEL_H_MM = Parsed.flags.height
        /\ Given(<<"m", "a", "r", "g", "i", "n">>) => cfg.MARGIN_MM = Parsed.flags.margin
        /\ Given(<<"g", "a", "p">>) => cfg.GAP_MM = Parsed.flags.gap
        /\ Given(<<"d", "e", "l", "a", "y">>) => cfg.DELAY_MS = Parsed.flags.delay

\* What the code does: a flag given with a value above 0 is the setting of
\* the job, and one given with 0 leaves the default.
C28_PositiveFlagsTakeEffect ==
    CliFlagsApplied =>
        /\ Given(<<"d", "p", "i">>) =>
              cfg.DPI = IF Parsed.flags.dpi > 0 THEN Parsed.flags.dpi ELSE DefaultCfg.DPI
        /\ Given(<<"w", "i", "d", "t", "h">>) =>
              cfg.LABEL_W_MM = IF Parsed.flags.width > 0 THEN Parsed.flags.width
                               ELSE DefaultCfg.LABEL_W_MM
        /\ Given(<<"m", "a", "r", "g", "i", "n">>) =>
              cfg.MARGIN_MM = IF Parsed.flags.margin > 0 THEN Parsed.flags.margin
                              ELSE DefaultCfg.MARGIN_MM
        /\ Given(<<"g", "a", "p">>) =>
              cfg.GAP_MM = IF Parsed.flags.gap > 0 THEN Parsed.flags.gap
                           ELSE DefaultCfg.GAP_MM
        /\ Given(<<"d", "e", "l", "a", "y">>) =>
              cfg.DELAY_MS = IF Parsed.flags.delay > 0 THEN Parsed.flags.delay
                             ELSE DefaultCfg.DELAY_MS

(***************************************************************************)
(* What a return of nil of the device writer means (SpecDev).              *)
(***************************************************************************)
AllWritten ==
    /\ devW = devLen
    /\ Writes # <<>>
    /\ Writes[1].from = 0 /\ Writes[Len(Writes)].to = devLen
    /\ \A i \in 2 .. Len(Writes) : Writes[i].from = Writes[i - 1].to

\* C29: a return of nil means that every byte was written and that the
\* sync succeeded: the writer returns an error when the sync fails.
C29_NilMeansSynced ==
    /\ devPc = "returned nil" =>
          /\ AllWritten
          /\ \E i \in 1 .. Len(devEvents) : devEvents[i].kind = "sync"
    /\ (\E i \in 1 .. Len(devEvents) : devEvents[i].kind = "sync error") =>
          devPc = "failed"

\* C29 amended: a return of nil means that every byte was written and that
\* the sync was issued after the last write; the sync may have failed: its
\* failure is logged and the writer returns nil all the same.
C29_NilMeansWritten ==
    /\ devPc = "returned nil" =>
          /\ AllWritten
          /\ \E i \in 2 .. Len(devEvents) :
                /\ devEvents[i].kind \in {"sync", "sync error"}
                /\ devEvents[i - 1] = Writes[Len(Writes)]
    /\ (\E i \in 1 .. Len(devEvents) : devEvents[i].kind = "sync error") =>
          devPc = "returned nil"

\* The writer has returned nil for a buffer of more than one chunk after a
\* sync that failed.
C29_Witness ==
    /\ devPc = "returned nil"
    /\ Len(Writes) >= 2
    /\ \E i \in 1 .. Len(devEvents) : devEvents[i].kind = "sync error"

(***************************************************************************)
(* Filters that run at the same time (SpecShare).                          *)
(***************************************************************************)
\* C30: each of two filters that run at the same time opens only staging
\* files that hold what it wrote itself.
C30_OwnFilesOnly ==
    \A p \in Procs :
        \A k \in 1 .. Len(filters[p].reads) : filters[p].reads[k].by = p

\* What the code does: a file a filter opens holds what the filter wrote
\* last under that name or what the other filter wrote under the same name:
\* the page image of a page both documents have, or the document staged in
\* the same second.
C30_SharedNames ==
    \A p \in Procs :
        \A k \in 1 .. Len(filters[p].reads) :
            LET rd == filters[p].reads[k] IN
            rd.by # p =>
                \/ \E i \in 1 .. MaxSharedPages :
                      /\ rd.name = PageName(i)
                      /\ \A q \in Procs : filters[q].doc >= i
                \/ \A q \in Procs : filters[q].pdfPath = rd.name

====
